---------------------------- MODULE Spec2Model ----------------------------
(***************************************************************************)
(* A model of the grid helpers of advent-2024-rust and of the programs     *)
(* built on them:                                                          *)
(*   src/src/lib.rs        TileIndex, Direction                            *)
(*   src/src/bin/day10.rs  FieldMap::dfs, FieldMap::trailhead_score        *)
(*   src/src/bin/day12.rs  Plot::collect_regions                           *)
(*   src/src/bin/day13.rs  dijkstra_solver, linear_algebra_solver          *)
(*   src/src/bin/day15.rs  Sokoban::forward                                *)
(*   src/src/bin/day16.rs  search                                          *)
(*   src/src/bin/day18.rs  Grid::new, Grid::mark, Grid::step_count         *)
(*   src/src/bin/day20.rs  Maze::costs                                     *)
(*   src/day06/src/main.rs World, Stepper::is_infinite_looping             *)
(* Every program is single threaded; each specification below runs one of  *)
(* them and leaves the variables of the others at their idle values.       *)
(***************************************************************************)
EXTENDS Integers, Sequences, FiniteSets

VARIABLES
    \* lib.rs: a TileIndex, the arguments of a call, and up to two chained calls
    tiles, index, dir, fn1, ret1, fn2, ret2,
    \* lib.rs: a Direction being rotated
    d0, d, rots,
    \* day10.rs: a FieldMap, the argument of dfs, its locals, its position and
    \* its return value; what trailhead_score returns; and, kept for the
    \* properties only, the list of the (from, to) pairs the filter of
    \* neighbors was evaluated on
    field, d10_start, d10_to_visit, d10_visited, d10_pc, d10_ret, d10_score,
    d10_evals,
    \* day12.rs: a Plot, the locals of collect_regions, its position and its
    \* return value
    plot, d12_result, d12_visited, last_unvisited, d12_name, d12_indices,
    d12_queue, d12_pc, d12_ret,
    \* day18.rs: a Grid, the locals of step_count (iter is what the for loop
    \* has left of the to_visit it consumes), its position, its return value
    \* and, kept for the properties only, the list of the (from, to) pairs its
    \* filter was evaluated on
    grid, d18_visited, d18_to_visit, d18_to_visit_next, d18_iter, count,
    d18_pc, d18_ret, d18_evals,
    \* day20.rs: a Maze, the locals of costs (iter is what the for loop has
    \* left of the to_visit it consumes), its position and its return value
    maze, costs, d20_to_visit, d20_next_to_visit, d20_iter, d20_visited,
    current_step, d20_pc, d20_ret,
    \* day16.rs: a call of search: a Maze (race) and a PlayerState (d16_start)
    \* as parse returns them, the locals heap and d16_visited of search, its
    \* position d16_pc and its return value d16_ret
    day16,
    \* day15.rs: a Sokoban (sokoban), the argument of the last call of forward
    \* (d15_dir, None before the first), how that call ended (d15_exit:
    \* "return" before anything moved, "push", "panic") and, kept for the
    \* properties only, the positions its to_move held then (d15_to_move)
    day15,
    \* day13.rs: the buttons and the prize of a claw machine (claw), the heap
    \* of dijkstra_solver (d13_heap), its position d13_pc and its return
    \* value d13_ret, and how linear_algebra_solver ended on the same machine
    \* (linear_exit) and what it returned (linear_ret)
    day13,
    \* day06: a World (world), the Stepper that is_infinite_looping iterates
    \* (stepper), the locals player_states and last_pos of
    \* is_infinite_looping, its position d06_pc and its return value d06_ret
    day06,
    \* day18.rs: a Grid built by Grid::new (marking), the argument of the last
    \* call of Grid::mark (mark_coord) and how that call ended (mark_exit)
    day18_mark

tileVars == <<tiles, index, dir, fn1, ret1, fn2, ret2>>
dirVars  == <<d0, d, rots>>
d10Vars  == <<field, d10_start, d10_to_visit, d10_visited, d10_pc, d10_ret,
              d10_score, d10_evals>>
d12Vars  == <<plot, d12_result, d12_visited, last_unvisited, d12_name, d12_indices,
              d12_queue, d12_pc, d12_ret>>
d18Vars  == <<grid, d18_visited, d18_to_visit, d18_to_visit_next, d18_iter, count,
              d18_pc, d18_ret, d18_evals>>
d20Vars  == <<maze, costs, d20_to_visit, d20_next_to_visit, d20_iter, d20_visited,
              current_step, d20_pc, d20_ret>>
d16Vars  == <<day16>>
d15Vars  == <<day15>>
d13Vars  == <<day13>>
d06Vars  == <<day06>>
markVars == <<day18_mark>>
vars     == <<tileVars, dirVars, d10Vars, d12Vars, d18Vars, d20Vars, d16Vars,
              d15Vars, d13Vars, d06Vars, markVars>>

\* the fields of day16
race == day16.race
d16_start == day16.d16_start
heap == day16.heap
d16_visited == day16.d16_visited
d16_pc == day16.d16_pc
d16_ret == day16.d16_ret

\* the fields of day15
sokoban == day15.sokoban
d15_dir == day15.d15_dir
d15_exit == day15.d15_exit
d15_to_move == day15.d15_to_move

\* the fields of day13
claw == day13.claw
d13_heap == day13.d13_heap
d13_pc == day13.d13_pc
d13_ret == day13.d13_ret
linear_exit == day13.linear_exit
linear_ret == day13.linear_ret

\* the fields of day06
world == day06.world
stepper == day06.stepper
player_states == day06.player_states
last_pos == day06.last_pos
d06_pc == day06.d06_pc
d06_ret == day06.d06_ret

\* the fields of day18_mark
marking == day18_mark.marking
mark_coord == day18_mark.mark_coord
mark_exit == day18_mark.mark_exit

\* what a step of one program leaves alone: the variables of the others
notTiles == <<dirVars, d10Vars, d12Vars, d18Vars, d20Vars, d16Vars,
              d15Vars, d13Vars, d06Vars, markVars>>
notDir   == <<tileVars, d10Vars, d12Vars, d18Vars, d20Vars, d16Vars,
              d15Vars, d13Vars, d06Vars, markVars>>
notD10   == <<tileVars, dirVars, d12Vars, d18Vars, d20Vars, d16Vars,
              d15Vars, d13Vars, d06Vars, markVars>>
notD12   == <<tileVars, dirVars, d10Vars, d18Vars, d20Vars, d16Vars,
              d15Vars, d13Vars, d06Vars, markVars>>
notD18   == <<tileVars, dirVars, d10Vars, d12Vars, d20Vars, d16Vars,
              d15Vars, d13Vars, d06Vars, markVars>>
notD20   == <<tileVars, dirVars, d10Vars, d12Vars, d18Vars, d16Vars,
              d15Vars, d13Vars, d06Vars, markVars>>
notD16   == <<tileVars, dirVars, d10Vars, d12Vars, d18Vars, d20Vars,
              d15Vars, d13Vars, d06Vars, markVars>>
notD15   == <<tileVars, dirVars, d10Vars, d12Vars, d18Vars, d20Vars,
              d16Vars, d13Vars, d06Vars, markVars>>
notD13   == <<tileVars, dirVars, d10Vars, d12Vars, d18Vars, d20Vars,
              d16Vars, d15Vars, d06Vars, markVars>>
notD06   == <<tileVars, dirVars, d10Vars, d12Vars, d18Vars, d20Vars,
              d16Vars, d15Vars, d13Vars, markVars>>
notMark  == <<tileVars, dirVars, d10Vars, d12Vars, d18Vars, d20Vars,
              d16Vars, d15Vars, d13Vars, d06Vars>>

---------------------------------------------------------------------------
(* Bounds of the model *)

\* widest grid of the TileIndex calls
MaxWidth == 4
\* tallest grid of the TileIndex calls
MaxHeight == 4
\* longest chain of rotations applied to a Direction
MaxRots == 4
\* most cells of a FieldMap
MaxFieldCells == 4
\* greatest height of a cell of a FieldMap (the puzzle's digits go up to 9)
MaxElevation == 2
\* most start indices handed to FieldMap::dfs
MaxStarts == 2
\* most cells of a Maze
MaxMazeCells == 6
\* most cells of a Plot
MaxPlotCells == 6
\* number of distinct names a cell of a Plot can carry
MaxLabels == 2
\* most cells of a Grid
MaxGridCells == 8
\* most cells of a Maze of day16
MaxRaceCells == 6
\* most characters of the map the boards of day15 are parsed from
MaxBoardCells == 4
\* most characters of a map of day15 that holds wide boulders, a player and
\* empty cells only
MaxWideCells == 12
\* most wide boulders of such a map
MaxWideBoulders == 2

---------------------------------------------------------------------------
(* Constants of the programs *)

\* u32::MAX, the cost Maze::costs starts every cell with.  u32::MAX is
\* 4294967295, beyond the integers of TLC: the model takes the greatest of
\* those, which like u32::MAX is above every step count a grid can produce.
U32_MAX == 2147483647

---------------------------------------------------------------------------
(* Option<usize>: None is the empty sequence, Some(x) the one-element one,  *)
(* so that Option::into_iter and Iterator::chain are concatenation.         *)

None == <<>>
Some(x) == <<x>>

---------------------------------------------------------------------------
(* src/src/lib.rs *)

\* enum Direction
Direction == {"Left", "Right", "Up", "Down"}

\* pub const DIRECTIONS, in its order
DIRECTIONS == <<"Left", "Right", "Up", "Down">>

\* struct TileIndex { width, height }, both positive (spec section 3)
TileIndex == [width : 1..MaxWidth, height : 1..MaxHeight]

\* Direction::clock with Left sent to Down, a slip in the last arm
clock_left_to_down(self) ==
    CASE self = "Up"    -> "Right"
      [] self = "Right" -> "Down"
      [] self = "Down"  -> "Left"
      [] self = "Left"  -> "Down"

\* Direction::clock
clock(self) ==
    CASE self = "Up"    -> "Right"
      [] self = "Right" -> "Down"
      [] self = "Down"  -> "Left"
      [] self = "Left"  -> "Up"

\* Direction::counterclock
counterclock(self) ==
    CASE self = "Up"    -> "Left"
      [] self = "Right" -> "Up"
      [] self = "Down"  -> "Right"
      [] self = "Left"  -> "Down"

\* TileIndex::right without the column test
right_no_column_test(self, i) ==
    IF i + 1 < self.width * self.height
    THEN Some(i + 1)
    ELSE None

\* TileIndex::right.  usize arithmetic: no operand is negative and, on the
\* grids of the model, none comes near usize::MAX.
right(self, i) ==
    IF (i % self.width) + 1 < self.width /\ i + 1 < self.width * self.height
    THEN Some(i + 1)
    ELSE None

\* TileIndex::left without the column test
left_no_column_test(self, i) ==
    IF i # 0
    THEN Some(i - 1)
    ELSE None

\* TileIndex::left
left(self, i) ==
    IF (i % self.width) > 0 /\ i # 0
    THEN Some(i - 1)
    ELSE None

\* TileIndex::up testing the column in place of the row
up_column_test(self, i) ==
    IF (i % self.width) > 0
    THEN Some(i - self.width)
    ELSE None

\* TileIndex::up stepping by the height in place of the width
up_height_stride(self, i) ==
    IF (i \div self.width) > 0
    THEN Some(i - self.height)
    ELSE None

\* TileIndex::up
up(self, i) ==
    IF (i \div self.width) > 0
    THEN Some(i - self.width)
    ELSE None

\* TileIndex::down with the row bound checked against height
down_bound_height(self, i) ==
    IF (i \div self.width) < self.height
    THEN Some(i + self.width)
    ELSE None

\* TileIndex::down
down(self, i) ==
    IF (i \div self.width) < self.height - 1
    THEN Some(i + self.width)
    ELSE None

\* TileIndex::dir_to with the Up and Down arms exchanged
dir_to_up_down_swapped(self, i, dr) ==
    CASE dr = "Left"  -> left(self, i)
      [] dr = "Right" -> right(self, i)
      [] dr = "Up"    -> down(self, i)
      [] dr = "Down"  -> up(self, i)

\* TileIndex::dir_to
dir_to(self, i, dr) ==
    CASE dr = "Left"  -> left(self, i)
      [] dr = "Right" -> right(self, i)
      [] dr = "Up"    -> up(self, i)
      [] dr = "Down"  -> down(self, i)

---------------------------------------------------------------------------
(* Calls of the TileIndex functions: a first call on a valid index and,    *)
(* when it returned Some(j), a second call on j.                           *)

TilesInit ==
    /\ tiles \in TileIndex
    /\ index \in 0..(tiles.width * tiles.height - 1)
    /\ dir \in Direction
    /\ fn1 = "none" /\ ret1 = None
    /\ fn2 = "none" /\ ret2 = None

TilesIdle ==
    /\ tiles = [width |-> 1, height |-> 1]
    /\ index = 0
    /\ dir = "Left"
    /\ fn1 = "none" /\ ret1 = None
    /\ fn2 = "none" /\ ret2 = None

\* the index a call is made on: the valid index or, once a call has returned
\* Some(j), that j
CallIndex == IF fn1 = "none" \/ ret1 = None THEN index ELSE ret1[1]

\* one call of the function named name, ret being what it returns on CallIndex
Invoke(name, ret) ==
    \/ /\ fn1 = "none"
       /\ fn1' = name
       /\ ret1' = ret
       /\ UNCHANGED <<tiles, index, dir, fn2, ret2>>
    \/ /\ fn1 # "none" /\ fn2 = "none" /\ ret1 # None
       /\ fn2' = name
       /\ ret2' = ret
       /\ UNCHANGED <<tiles, index, dir, fn1, ret1>>

CallRight ==
    /\ Invoke("right", right(tiles, CallIndex))
    /\ UNCHANGED notTiles

CallLeft ==
    /\ Invoke("left", left(tiles, CallIndex))
    /\ UNCHANGED notTiles

CallUp ==
    /\ Invoke("up", up(tiles, CallIndex))
    /\ UNCHANGED notTiles

CallDown ==
    /\ Invoke("down", down(tiles, CallIndex))
    /\ UNCHANGED notTiles

CallDirTo ==
    /\ Invoke("dir_to", dir_to(tiles, CallIndex, dir))
    /\ UNCHANGED notTiles

---------------------------------------------------------------------------
(* Rotations of a Direction, applied one after the other.                  *)

DirInit ==
    /\ d0 \in Direction
    /\ d = d0
    /\ rots = <<>>

DirIdle ==
    /\ d0 = "Left"
    /\ d = "Left"
    /\ rots = <<>>

Clock ==
    /\ Len(rots) < MaxRots
    /\ d' = clock(d)
    /\ rots' = Append(rots, "clock")
    /\ UNCHANGED <<d0, notDir>>

Counterclock ==
    /\ Len(rots) < MaxRots
    /\ d' = counterclock(d)
    /\ rots' = Append(rots, "counterclock")
    /\ UNCHANGED <<d0, notDir>>

---------------------------------------------------------------------------
(* src/src/bin/day10.rs.  Vec<T> is a sequence; a grid buffer is indexed    *)
(* from 0, so it is a function on 0..len-1.                                 *)

\* the indices of a buffer of n cells
Cells(n) == 0..(n - 1)

\* the sequences over S of length at most n
SeqUpTo(S, n) == UNION {[1..k -> S] : k \in 0..n}

\* the elements of a sequence
Range(q) == {q[k] : k \in 1..Len(q)}

\* struct FieldMap { data, tiles } as FieldMap::new builds it from lines of
\* equal length of digits: width * height cells, each a height of Heights
FieldMapOver(Heights, MaxCells) ==
    UNION {[data : [Cells(w * h) -> Heights],
            tiles : {[width |-> w, height |-> h]}] :
           <<w, h>> \in {wh \in (1..MaxCells) \X (1..MaxCells) :
                            wh[1] * wh[2] <= MaxCells}}

\* the fields dfs is run on: the heights from 0
FieldMap == FieldMapOver(0..MaxElevation, MaxFieldCells)

\* the fields trailhead_score is run on: the heights up to 9, which it counts
ScoreFieldMap == FieldMapOver((9 - MaxElevation)..9, MaxFieldCells)

\* FieldMap::directional_neighbors: left, right, up, down chained
directional_neighbors(self, i) ==
    left(self.tiles, i) \o right(self.tiles, i)
        \o up(self.tiles, i) \o down(self.tiles, i)

\* FieldMap::neighbors with the filter accepting any higher cell
neighbors_any_climb(self, i) ==
    LET keep(j) == self.data[i] + 1 <= self.data[j]
    IN  SelectSeq(directional_neighbors(self, i), keep)

\* FieldMap::neighbors.  The heights are digits, so the u8 sum cannot wrap.
neighbors(self, i) ==
    LET keep(j) == self.data[i] + 1 = self.data[j]
    IN  SelectSeq(directional_neighbors(self, i), keep)

\* the pairs (i, j) the filter of neighbors(i) is evaluated on, in order
filter_evals(self, i) ==
    LET dn == directional_neighbors(self, i)
    IN  [k \in 1..Len(dn) |-> <<i, dn[k]>>]

\* the tail of FieldMap::dfs: the indices whose flag is set, ascending
RECURSIVE VisitedIndices(_, _)
VisitedIndices(flags, n) ==
    IF n = 0 THEN <<>>
    ELSE LET rest == VisitedIndices(flags, n - 1)
         IN  IF flags[n - 1] THEN Append(rest, n - 1) ELSE rest

\* the tail of FieldMap::trailhead_score counting every visited index
count_all(self, found) == Len(found)

\* the tail of FieldMap::trailhead_score: the visited indices of height 9
count_nines(self, found) ==
    LET nine(i) == self.data[i] = 9
    IN  Len(SelectSeq(found, nine))

\* a direct call of dfs
D10Init ==
    /\ field \in FieldMap
    /\ d10_start \in SeqUpTo(DOMAIN field.data, MaxStarts)
    /\ d10_to_visit = <<>>
    /\ d10_visited = <<>>
    /\ d10_pc = "call"
    /\ d10_ret = <<>>
    /\ d10_score = None
    /\ d10_evals = <<>>

\* a call of trailhead_score(trailhead), which calls dfs([trailhead])
D10ScoreInit ==
    /\ field \in ScoreFieldMap
    /\ \E trailhead \in DOMAIN field.data : d10_start = <<trailhead>>
    /\ d10_to_visit = <<>>
    /\ d10_visited = <<>>
    /\ d10_pc = "call"
    /\ d10_ret = <<>>
    /\ d10_score = None
    /\ d10_evals = <<>>

D10Idle ==
    /\ field = [data |-> [i \in {0} |-> 0], tiles |-> [width |-> 1, height |-> 1]]
    /\ d10_start = <<>>
    /\ d10_to_visit = <<>>
    /\ d10_visited = <<>>
    /\ d10_pc = "idle"
    /\ d10_ret = <<>>
    /\ d10_score = None
    /\ d10_evals = <<>>

\* FieldMap::dfs, its two let statements, with to_visit seeded with index 0
DfsEnter_seeded ==
    /\ d10_pc = "call"
    /\ d10_to_visit' = <<0>> \o d10_start
    /\ d10_visited' = [i \in DOMAIN field.data |-> FALSE]
    /\ d10_pc' = "loop"
    /\ UNCHANGED <<field, d10_start, d10_ret, d10_score, d10_evals, notD10>>

\* FieldMap::dfs, its two let statements
DfsEnter ==
    /\ d10_pc = "call"
    /\ d10_to_visit' = d10_start
    /\ d10_visited' = [i \in DOMAIN field.data |-> FALSE]
    /\ d10_pc' = "loop"
    /\ UNCHANGED <<field, d10_start, d10_ret, d10_score, d10_evals, notD10>>

\* FieldMap::dfs, an iteration that pops a visited index and continues
DfsSkip ==
    /\ d10_pc = "loop"
    /\ d10_to_visit # <<>>
    /\ LET i == d10_to_visit[Len(d10_to_visit)]
       IN  /\ d10_visited[i]
           /\ d10_to_visit' = SubSeq(d10_to_visit, 1, Len(d10_to_visit) - 1)
    /\ UNCHANGED <<field, d10_start, d10_visited, d10_pc, d10_ret, d10_score,
                   d10_evals, notD10>>

\* FieldMap::dfs, an iteration that pops an index whatever its flag, and
\* pushes its neighbors: the test of visited left out
DfsVisit_no_test ==
    /\ d10_pc = "loop"
    /\ d10_to_visit # <<>>
    /\ LET i == d10_to_visit[Len(d10_to_visit)]
       IN  /\ d10_visited' = [d10_visited EXCEPT ![i] = TRUE]
           /\ d10_to_visit' =
                  SubSeq(d10_to_visit, 1, Len(d10_to_visit) - 1) \o neighbors(field, i)
           /\ d10_evals' = d10_evals \o filter_evals(field, i)
    /\ UNCHANGED <<field, d10_start, d10_pc, d10_ret, d10_score, notD10>>

\* FieldMap::dfs, an iteration that pops an unvisited index, marks it and
\* makes its neighbors the whole of to_visit: assignment in place of extend
DfsVisit_assign ==
    /\ d10_pc = "loop"
    /\ d10_to_visit # <<>>
    /\ LET i == d10_to_visit[Len(d10_to_visit)]
       IN  /\ ~d10_visited[i]
           /\ d10_visited' = [d10_visited EXCEPT ![i] = TRUE]
           /\ d10_to_visit' = neighbors(field, i)
           /\ d10_evals' = d10_evals \o filter_evals(field, i)
    /\ UNCHANGED <<field, d10_start, d10_pc, d10_ret, d10_score, notD10>>

\* FieldMap::dfs, an iteration that pops an unvisited index, marks it and
\* pushes its neighbors
DfsVisit ==
    /\ d10_pc = "loop"
    /\ d10_to_visit # <<>>
    /\ LET i == d10_to_visit[Len(d10_to_visit)]
       IN  /\ ~d10_visited[i]
           /\ d10_visited' = [d10_visited EXCEPT ![i] = TRUE]
           /\ d10_to_visit' =
                  SubSeq(d10_to_visit, 1, Len(d10_to_visit) - 1) \o neighbors(field, i)
           /\ d10_evals' = d10_evals \o filter_evals(field, i)
    /\ UNCHANGED <<field, d10_start, d10_pc, d10_ret, d10_score, notD10>>

\* FieldMap::dfs, the loop's exit and the collected result
DfsReturn ==
    /\ d10_pc = "loop"
    /\ d10_to_visit = <<>>
    /\ d10_ret' = VisitedIndices(d10_visited, Cardinality(DOMAIN field.data))
    /\ d10_pc' = "done"
    /\ UNCHANGED <<field, d10_start, d10_to_visit, d10_visited, d10_score,
                   d10_evals, notD10>>

\* FieldMap::trailhead_score, after its call of dfs has returned
ScoreReturn ==
    /\ d10_pc = "done"
    /\ d10_score' = Some(count_nines(field, d10_ret))
    /\ d10_pc' = "scored"
    /\ UNCHANGED <<field, d10_start, d10_to_visit, d10_visited, d10_ret,
                   d10_evals, notD10>>

---------------------------------------------------------------------------
(* src/src/bin/day20.rs *)

\* struct Maze as Maze::new builds it from lines of equal length that hold
\* an 'S' and an 'E'.  costs reads of a cell only whether it is '#', so one
\* 'S' and one 'E' among '#' and '.' stand for every input.
Maze ==
    UNION {{[data |-> [i \in Cells(w * h) |->
                          IF i = s THEN "S" ELSE IF i = e THEN "E"
                          ELSE IF i \in walls THEN "#" ELSE "."],
             width |-> w, height |-> h,
             tiles |-> [width |-> w, height |-> h],
             start_pos |-> s, end_pos |-> e] :
               <<s, e, walls>> \in {sew \in Cells(w * h) \X Cells(w * h)
                                               \X SUBSET Cells(w * h) :
                                       /\ sew[1] # sew[2]
                                       /\ sew[1] \notin sew[3]
                                       /\ sew[2] \notin sew[3]}} :
           <<w, h>> \in {wh \in (1..MaxMazeCells) \X (1..MaxMazeCells) :
                            wh[1] * wh[2] <= MaxMazeCells}}

\* the body of the loop over DIRECTIONS in Maze::costs without the test
\* of '#'
RECURSIVE open_neighbors_through_walls(_, _, _, _)
open_neighbors_through_walls(self, seen, pos, k) ==
    IF k > Len(DIRECTIONS) THEN <<>>
    ELSE LET keep(neighbor) == ~seen[neighbor]
         IN  SelectSeq(dir_to(self.tiles, pos, DIRECTIONS[k]), keep)
                 \o open_neighbors_through_walls(self, seen, pos, k + 1)

\* the body of the loop over DIRECTIONS in Maze::costs: the neighbours of
\* pos that pass the filter, in the order of DIRECTIONS, seen is visited
RECURSIVE open_neighbors(_, _, _, _)
open_neighbors(self, seen, pos, k) ==
    IF k > Len(DIRECTIONS) THEN <<>>
    ELSE LET keep(neighbor) == ~seen[neighbor] /\ self.data[neighbor] # "#"
         IN  SelectSeq(dir_to(self.tiles, pos, DIRECTIONS[k]), keep)
                 \o open_neighbors(self, seen, pos, k + 1)

D20Init ==
    /\ maze \in Maze
    /\ costs = <<>>
    /\ d20_to_visit = <<>>
    /\ d20_next_to_visit = <<>>
    /\ d20_iter = <<>>
    /\ d20_visited = <<>>
    /\ current_step = 0
    /\ d20_pc = "call"
    /\ d20_ret = <<>>

D20Idle ==
    /\ maze = [data |-> <<>>, width |-> 0, height |-> 0,
               tiles |-> [width |-> 0, height |-> 0],
               start_pos |-> 0, end_pos |-> 0]
    /\ costs = <<>>
    /\ d20_to_visit = <<>>
    /\ d20_next_to_visit = <<>>
    /\ d20_iter = <<>>
    /\ d20_visited = <<>>
    /\ current_step = 0
    /\ d20_pc = "idle"
    /\ d20_ret = <<>>

\* Maze::costs, the let statements before the loop
CostsEnter ==
    /\ d20_pc = "call"
    /\ costs' = [i \in DOMAIN maze.data |-> U32_MAX]
    /\ d20_to_visit' = <<maze.start_pos>>
    /\ d20_visited' = [i \in DOMAIN maze.data |-> FALSE]
    /\ current_step' = 0
    /\ d20_pc' = "while"
    /\ UNCHANGED <<maze, d20_next_to_visit, d20_iter, d20_ret, notD20>>

\* Maze::costs, the while test passing: a new next_to_visit, and the for
\* loop takes to_visit
CostsWhile ==
    /\ d20_pc = "while"
    /\ d20_to_visit # <<>>
    /\ d20_next_to_visit' = <<>>
    /\ d20_iter' = d20_to_visit
    /\ d20_pc' = "for"
    /\ UNCHANGED <<maze, costs, d20_to_visit, d20_visited, current_step, d20_ret,
                   notD20>>

\* Maze::costs, a for iteration on a visited position: continue
CostsSkip ==
    /\ d20_pc = "for"
    /\ d20_iter # <<>>
    /\ d20_visited[Head(d20_iter)]
    /\ d20_iter' = Tail(d20_iter)
    /\ UNCHANGED <<maze, costs, d20_to_visit, d20_next_to_visit, d20_visited,
                   current_step, d20_pc, d20_ret, notD20>>

\* Maze::costs, the visiting iteration pushing the neighbours on the list
\* the for loop is going through, in place of next_to_visit
CostsVisit_same_list ==
    /\ d20_pc = "for"
    /\ d20_iter # <<>>
    /\ LET next_position == Head(d20_iter)
           marked == [d20_visited EXCEPT ![next_position] = TRUE]
       IN  /\ ~d20_visited[next_position]
           /\ d20_visited' = marked
           /\ costs' = [costs EXCEPT ![next_position] = current_step]
           /\ d20_iter' =
                  Tail(d20_iter) \o open_neighbors(maze, marked, next_position, 1)
    /\ UNCHANGED <<maze, d20_to_visit, d20_next_to_visit, current_step, d20_pc,
                   d20_ret, notD20>>

\* Maze::costs, a for iteration on an unvisited position: mark it, record
\* its cost, push its open unvisited neighbours
CostsVisit ==
    /\ d20_pc = "for"
    /\ d20_iter # <<>>
    /\ LET next_position == Head(d20_iter)
           marked == [d20_visited EXCEPT ![next_position] = TRUE]
       IN  /\ ~d20_visited[next_position]
           /\ d20_visited' = marked
           /\ costs' = [costs EXCEPT ![next_position] = current_step]
           /\ d20_next_to_visit' =
                  d20_next_to_visit \o open_neighbors(maze, marked, next_position, 1)
    /\ d20_iter' = Tail(d20_iter)
    /\ UNCHANGED <<maze, d20_to_visit, current_step, d20_pc, d20_ret,
                   notD20>>

\* Maze::costs, the end of the for loop: the next level becomes to_visit
CostsNextLevel ==
    /\ d20_pc = "for"
    /\ d20_iter = <<>>
    /\ d20_to_visit' = d20_next_to_visit
    /\ current_step' = current_step + 1
    /\ d20_pc' = "while"
    /\ UNCHANGED <<maze, costs, d20_next_to_visit, d20_iter, d20_visited, d20_ret,
                   notD20>>

\* Maze::costs, the while test failing: costs is returned
CostsReturn ==
    /\ d20_pc = "while"
    /\ d20_to_visit = <<>>
    /\ d20_ret' = costs
    /\ d20_pc' = "done"
    /\ UNCHANGED <<maze, costs, d20_to_visit, d20_next_to_visit, d20_iter,
                   d20_visited, current_step, notD20>>

---------------------------------------------------------------------------
(* src/src/bin/day12.rs *)

\* struct Plot<T> { data, tiles } as Plot::new builds it from lines of equal
\* length; T is compared and copied only, so small numbers stand for it
Plot ==
    UNION {[data : [Cells(w * h) -> 1..MaxLabels],
            tiles : {[width |-> w, height |-> h]}] :
           <<w, h>> \in {wh \in (1..MaxPlotCells) \X (1..MaxPlotCells) :
                            wh[1] * wh[2] <= MaxPlotCells}}

\* visited[..last].iter().rposition(|x| !*x): the last unvisited index below
\* last, None when there is none
rposition_unvisited(flags, last) ==
    LET U == {i \in DOMAIN flags : i < last /\ ~flags[i]}
    IN  IF U = {} THEN None ELSE Some(CHOOSE i \in U : \A j \in U : j <= i)

\* the for loop of Plot::collect_regions over left, right, up, down without
\* the test of the name
region_neighbors_any_name(self, seen, name, i) ==
    LET keep(idx) == ~seen[idx]
    IN  SelectSeq(left(self.tiles, i) \o right(self.tiles, i)
                      \o up(self.tiles, i) \o down(self.tiles, i), keep)

\* the for loop of Plot::collect_regions over left, right, up, down without
\* the test of visited
region_neighbors_no_seen_test(self, seen, name, i) ==
    LET keep(idx) == self.data[idx] = name
    IN  SelectSeq(left(self.tiles, i) \o right(self.tiles, i)
                      \o up(self.tiles, i) \o down(self.tiles, i), keep)

\* the for loop of Plot::collect_regions over left, right, up, down: the
\* neighbours of i that pass both filters, seen being visited
region_neighbors(self, seen, name, i) ==
    LET keep(idx) == ~seen[idx] /\ self.data[idx] = name
    IN  SelectSeq(left(self.tiles, i) \o right(self.tiles, i)
                      \o up(self.tiles, i) \o down(self.tiles, i), keep)

D12Init ==
    /\ plot \in Plot
    /\ d12_result = <<>>
    /\ d12_visited = <<>>
    /\ last_unvisited = 0
    /\ d12_name = 0
    /\ d12_indices = <<>>
    /\ d12_queue = <<>>
    /\ d12_pc = "call"
    /\ d12_ret = <<>>

D12Idle ==
    /\ plot = [data |-> <<>>, tiles |-> [width |-> 0, height |-> 0]]
    /\ d12_result = <<>>
    /\ d12_visited = <<>>
    /\ last_unvisited = 0
    /\ d12_name = 0
    /\ d12_indices = <<>>
    /\ d12_queue = <<>>
    /\ d12_pc = "idle"
    /\ d12_ret = <<>>

\* Plot::collect_regions, the let statements before the loop
RegionsEnter ==
    /\ d12_pc = "call"
    /\ d12_result' = <<>>
    /\ d12_visited' = [i \in DOMAIN plot.data |-> FALSE]
    /\ last_unvisited' = Cardinality(DOMAIN plot.data)
    /\ d12_pc' = "loop"
    /\ UNCHANGED <<plot, d12_name, d12_indices, d12_queue, d12_ret, notD12>>

\* Plot::collect_regions, the loop finding an unvisited index: a region
\* starts there
RegionsStart ==
    /\ d12_pc = "loop"
    /\ LET found == rposition_unvisited(d12_visited, last_unvisited)
       IN  /\ found # None
           /\ last_unvisited' = found[1]
           /\ d12_name' = plot.data[found[1]]
           /\ d12_indices' = <<>>
           /\ d12_queue' = <<found[1]>>
    /\ d12_pc' = "while"
    /\ UNCHANGED <<plot, d12_result, d12_visited, d12_ret, notD12>>

\* Plot::collect_regions, the loop finding no unvisited index: break, and
\* result is returned
RegionsReturn ==
    /\ d12_pc = "loop"
    /\ rposition_unvisited(d12_visited, last_unvisited) = None
    /\ d12_ret' = d12_result
    /\ d12_pc' = "done"
    /\ UNCHANGED <<plot, d12_result, d12_visited, last_unvisited, d12_name,
                   d12_indices, d12_queue, notD12>>

\* Plot::collect_regions, a while iteration that finds a visited index on
\* top of queue and leaves it there
RegionsSkip_keep ==
    /\ d12_pc = "while"
    /\ d12_queue # <<>>
    /\ d12_visited[d12_queue[Len(d12_queue)]]
    /\ UNCHANGED <<plot, d12_result, d12_visited, last_unvisited, d12_name,
                   d12_indices, d12_queue, d12_pc, d12_ret, notD12>>

\* Plot::collect_regions, a while iteration that pops a visited index
RegionsSkip ==
    /\ d12_pc = "while"
    /\ d12_queue # <<>>
    /\ d12_visited[d12_queue[Len(d12_queue)]]
    /\ d12_queue' = SubSeq(d12_queue, 1, Len(d12_queue) - 1)
    /\ UNCHANGED <<plot, d12_result, d12_visited, last_unvisited, d12_name,
                   d12_indices, d12_pc, d12_ret, notD12>>

\* Plot::collect_regions, a while iteration that pops an index and pushes
\* its neighbours without marking it
RegionsVisit_no_mark ==
    /\ d12_pc = "while"
    /\ d12_queue # <<>>
    /\ LET neighbor == d12_queue[Len(d12_queue)]
       IN  /\ ~d12_visited[neighbor]
           /\ d12_indices' = Append(d12_indices, neighbor)
           /\ d12_queue' =
                  SubSeq(d12_queue, 1, Len(d12_queue) - 1)
                      \o region_neighbors(plot, d12_visited, d12_name, neighbor)
    /\ UNCHANGED <<plot, d12_result, d12_visited, last_unvisited, d12_name, d12_pc,
                   d12_ret, notD12>>

\* Plot::collect_regions, a while iteration that pops an unvisited index,
\* marks it, records it and pushes its unvisited neighbours of the same name
RegionsVisit ==
    /\ d12_pc = "while"
    /\ d12_queue # <<>>
    /\ LET neighbor == d12_queue[Len(d12_queue)]
           marked == [d12_visited EXCEPT ![neighbor] = TRUE]
       IN  /\ ~d12_visited[neighbor]
           /\ d12_visited' = marked
           /\ d12_indices' = Append(d12_indices, neighbor)
           /\ d12_queue' =
                  SubSeq(d12_queue, 1, Len(d12_queue) - 1)
                      \o region_neighbors(plot, marked, d12_name, neighbor)
    /\ UNCHANGED <<plot, d12_result, last_unvisited, d12_name, d12_pc, d12_ret,
                   notD12>>

\* Plot::collect_regions, the end of the while loop: the region is pushed
RegionsPush ==
    /\ d12_pc = "while"
    /\ d12_queue = <<>>
    /\ d12_result' = Append(d12_result, [name |-> d12_name, indices |-> d12_indices])
    /\ d12_pc' = "loop"
    /\ UNCHANGED <<plot, d12_visited, last_unvisited, d12_name, d12_indices,
                   d12_queue, d12_ret, notD12>>

---------------------------------------------------------------------------
(* src/src/bin/day18.rs *)

\* struct Grid { data, tile_index }: Grid::new(width, height) with some
\* cells marked since
Grid ==
    UNION {[data : [Cells(w * h) -> BOOLEAN],
            tile_index : {[width |-> w, height |-> h]}] :
           <<w, h>> \in {wh \in (1..MaxGridCells) \X (1..MaxGridCells) :
                            wh[1] * wh[2] <= MaxGridCells}}

\* the body of the loop over the directions in Grid::step_count: what
\* dir_to returns for each of Left, Right, Up, Down, in that order
RECURSIVE step_candidates(_, _, _)
step_candidates(self, i, k) ==
    IF k > 4 THEN <<>>
    ELSE dir_to(self.tile_index, i, <<"Left", "Right", "Up", "Down">>[k])
             \o step_candidates(self, i, k + 1)

\* the candidates that pass the filter without its test of the marks
step_neighbors_through_marks(self, seen, i) ==
    LET keep(idx) == ~seen[idx]
    IN  SelectSeq(step_candidates(self, i, 1), keep)

\* the candidates that pass the filter, seen being visited
step_neighbors(self, seen, i) ==
    LET keep(idx) == ~seen[idx] /\ ~self.data[idx]
    IN  SelectSeq(step_candidates(self, i, 1), keep)

\* the pairs (i, idx) the filter is evaluated on, in order
step_evals(self, i) ==
    LET c == step_candidates(self, i, 1)
    IN  [k \in 1..Len(c) |-> <<i, c[k]>>]

D18Init ==
    /\ grid \in Grid
    /\ d18_visited = <<>>
    /\ d18_to_visit = <<>>
    /\ d18_to_visit_next = <<>>
    /\ d18_iter = <<>>
    /\ count = 0
    /\ d18_pc = "call"
    /\ d18_ret = None
    /\ d18_evals = <<>>

D18Idle ==
    /\ grid = [data |-> <<>>, tile_index |-> [width |-> 0, height |-> 0]]
    /\ d18_visited = <<>>
    /\ d18_to_visit = <<>>
    /\ d18_to_visit_next = <<>>
    /\ d18_iter = <<>>
    /\ count = 0
    /\ d18_pc = "idle"
    /\ d18_ret = None
    /\ d18_evals = <<>>

\* Grid::step_count, the let statements before the loop
StepsEnter ==
    /\ d18_pc = "call"
    /\ d18_visited' = [i \in DOMAIN grid.data |-> FALSE]
    /\ d18_to_visit' = <<0>>
    /\ count' = 0
    /\ d18_pc' = "while"
    /\ UNCHANGED <<grid, d18_to_visit_next, d18_iter, d18_ret, d18_evals, notD18>>

\* Grid::step_count, the while test passing: a new to_visit_next, and the
\* for loop takes to_visit
StepsWhile ==
    /\ d18_pc = "while"
    /\ d18_to_visit # <<>>
    /\ d18_to_visit_next' = <<>>
    /\ d18_iter' = d18_to_visit
    /\ d18_pc' = "for"
    /\ UNCHANGED <<grid, d18_visited, d18_to_visit, count, d18_ret, d18_evals,
                   notD18>>

\* Grid::step_count, a for iteration on a visited index: continue
StepsSkip ==
    /\ d18_pc = "for"
    /\ d18_iter # <<>>
    /\ d18_visited[Head(d18_iter)]
    /\ d18_iter' = Tail(d18_iter)
    /\ UNCHANGED <<grid, d18_visited, d18_to_visit, d18_to_visit_next, count,
                   d18_pc, d18_ret, d18_evals, notD18>>

\* Grid::step_count, a for iteration on the last index, unvisited: it is
\* marked and Some(count) is returned
StepsGoal ==
    /\ d18_pc = "for"
    /\ d18_iter # <<>>
    /\ LET i == Head(d18_iter)
       IN  /\ ~d18_visited[i]
           /\ i = Cardinality(DOMAIN d18_visited) - 1
           /\ d18_visited' = [d18_visited EXCEPT ![i] = TRUE]
    /\ d18_ret' = Some(count)
    /\ d18_pc' = "done"
    /\ UNCHANGED <<grid, d18_to_visit, d18_to_visit_next, d18_iter, count,
                   d18_evals, notD18>>

\* Grid::step_count, a for iteration on another unvisited index: it is
\* marked and its unvisited unmarked neighbours are pushed
StepsVisit ==
    /\ d18_pc = "for"
    /\ d18_iter # <<>>
    /\ LET i == Head(d18_iter)
           marked == [d18_visited EXCEPT ![i] = TRUE]
       IN  /\ ~d18_visited[i]
           /\ i # Cardinality(DOMAIN d18_visited) - 1
           /\ d18_visited' = marked
           /\ d18_to_visit_next' = d18_to_visit_next \o step_neighbors(grid, marked, i)
           /\ d18_evals' = d18_evals \o step_evals(grid, i)
    /\ d18_iter' = Tail(d18_iter)
    /\ UNCHANGED <<grid, d18_to_visit, count, d18_pc, d18_ret, notD18>>

\* Grid::step_count, the end of the for loop: the next level becomes to_visit
StepsNextLevel ==
    /\ d18_pc = "for"
    /\ d18_iter = <<>>
    /\ count' = count + 1
    /\ d18_to_visit' = d18_to_visit_next
    /\ d18_pc' = "while"
    /\ UNCHANGED <<grid, d18_visited, d18_to_visit_next, d18_iter, d18_ret,
                   d18_evals, notD18>>

\* Grid::step_count, the while test failing: None is returned
StepsNone ==
    /\ d18_pc = "while"
    /\ d18_to_visit = <<>>
    /\ d18_ret' = None
    /\ d18_pc' = "done"
    /\ UNCHANGED <<grid, d18_visited, d18_to_visit, d18_to_visit_next, d18_iter,
                   count, d18_evals, notD18>>

---------------------------------------------------------------------------
(* src/src/bin/day16.rs *)

\* what parse returns: a Maze { collision_map, tiles, goal } built from
\* lines of equal length with one 'S' and one 'E', collision_map true on
\* '#', and a PlayerState on 'S' facing Right
RaceInput ==
    UNION {{[maze |-> [collision_map |-> [i \in Cells(w * h) |-> i \in walls],
                       tiles |-> [width |-> w, height |-> h],
                       goal |-> e],
             start |-> [pos |-> s, dir |-> "Right"]] :
               <<s, e, walls>> \in {sew \in Cells(w * h) \X Cells(w * h)
                                               \X SUBSET Cells(w * h) :
                                       /\ sew[1] # sew[2]
                                       /\ sew[1] \notin sew[3]
                                       /\ sew[2] \notin sew[3]}} :
           <<w, h>> \in {wh \in (1..MaxRaceCells) \X (1..MaxRaceCells) :
                            wh[1] * wh[2] <= MaxRaceCells}}

\* PlayerState::forward
forward(self, m) ==
    LET new_pos == dir_to(m.tiles, self.pos, self.dir)
    IN  IF new_pos = None THEN None
        ELSE IF m.collision_map[new_pos[1]] THEN None
        ELSE Some([pos |-> new_pos[1], dir |-> self.dir])

\* PlayerState::clock
player_clock(self) == [pos |-> self.pos, dir |-> clock(self.dir)]

\* PlayerState::counterclock
player_counterclock(self) == [pos |-> self.pos, dir |-> counterclock(self.dir)]

\* the place of a Direction in the enum, which its derived Ord compares
DirectionOrd(dr) == CHOOSE k \in 1..4 : DIRECTIONS[k] = dr

\* the derived Ord of (u32, PlayerState): the score, then pos, then dir
EntryLess(a, b) ==
    \/ a[1] < b[1]
    \/ a[1] = b[1] /\ a[2].pos < b[2].pos
    \/ a[1] = b[1] /\ a[2].pos = b[2].pos
           /\ DirectionOrd(a[2].dir) < DirectionOrd(b[2].dir)

\* the entry a heap without Reverse pops: the position in the list of a
\* greatest entry
heap_greatest(h) ==
    CHOOSE k \in 1..Len(h) :
        \A m \in 1..Len(h) : ~EntryLess(h[k], h[m]) /\ (h[m] = h[k] => k <= m)

\* the entry BinaryHeap<Reverse<..>>::pop returns: the position in the list
\* of a least entry (equal entries are the same value, the first stands for
\* them)
heap_least(h) ==
    CHOOSE k \in 1..Len(h) :
        \A m \in 1..Len(h) : ~EntryLess(h[m], h[k]) /\ (h[m] = h[k] => k <= m)

\* the heap without the entry at position k
heap_without(h, k) == SubSeq(h, 1, k - 1) \o SubSeq(h, k + 1, Len(h))

\* a call of search(&maze, &start) on what parse returned
D16Init ==
    \E input \in RaceInput :
        day16 = [race |-> input.maze,
                 d16_start |-> input.start,
                 heap |-> <<>>,
                 d16_visited |-> {},
                 d16_pc |-> "call",
                 d16_ret |-> None]

\* search is not called: day16 has no other field
D16Idle == day16 = [d16_pc |-> "idle"]

\* search, the statements before the loop
SearchEnter ==
    /\ d16_pc = "call"
    /\ day16' = [day16 EXCEPT !.heap = <<<<0, d16_start>>>>,
                              !.d16_visited = {},
                              !.d16_pc = "loop"]
    /\ UNCHANGED notD16

\* search, an iteration that pops a visited state: continue
SearchSkip ==
    /\ d16_pc = "loop"
    /\ heap # <<>>
    /\ LET k == heap_least(heap)
       IN  /\ heap[k][2] \in d16_visited
           /\ day16' = [day16 EXCEPT !.heap = heap_without(heap, k)]
    /\ UNCHANGED notD16

\* search, an iteration that pops an unvisited state on the goal: its score
\* is returned
SearchGoal ==
    /\ d16_pc = "loop"
    /\ heap # <<>>
    /\ LET k == heap_least(heap)
           score == heap[k][1]
           player == heap[k][2]
       IN  /\ player \notin d16_visited
           /\ player.pos = race.goal
           /\ day16' = [day16 EXCEPT !.heap = heap_without(heap, k),
                                     !.d16_visited = d16_visited \cup {player},
                                     !.d16_ret = Some(score),
                                     !.d16_pc = "done"]
    /\ UNCHANGED notD16

\* search, an iteration that pops an unvisited state off the goal: the
\* state a step forward leads to is pushed if there is one, and the two
\* states a turn leads to
SearchVisit ==
    /\ d16_pc = "loop"
    /\ heap # <<>>
    /\ LET k == heap_least(heap)
           score == heap[k][1]
           player == heap[k][2]
           p == forward(player, race)
           stepped == IF p = None THEN <<>> ELSE <<<<score + 1, p[1]>>>>
       IN  /\ player \notin d16_visited
           /\ player.pos # race.goal
           /\ day16' =
                  [day16 EXCEPT
                      !.d16_visited = d16_visited \cup {player},
                      !.heap = heap_without(heap, k) \o stepped
                                   \o <<<<score + 1000, player_clock(player)>>,
                                        <<score + 1000,
                                          player_counterclock(player)>>>>]
    /\ UNCHANGED notD16

\* search, the heap found empty: None
SearchNone ==
    /\ d16_pc = "loop"
    /\ heap = <<>>
    /\ day16' = [day16 EXCEPT !.d16_ret = None, !.d16_pc = "done"]
    /\ UNCHANGED notD16

---------------------------------------------------------------------------
(* src/src/bin/day15.rs *)

\* enum Entity, Boulder(shape) named by its shape
Entity == {"Empty", "Single", "WideLeft", "WideRight", "Wall", "Player"}

\* the first part of the input, a map: lines of equal length over the given
\* characters, named by the Entity that From<char> makes of each, with at
\* least one '@'
MapText(chars) ==
    UNION {[data : {c \in [Cells(w * h) -> chars] :
                       \E p \in Cells(w * h) : c[p] = "Player"},
            width : {w}, height : {h}] :
           <<w, h>> \in {wh \in (1..MaxBoardCells) \X (1..MaxBoardCells) :
                            wh[1] * wh[2] <= MaxBoardCells}}

\* widen_map on a map of '#', 'O', '.' and '@': every character becomes two
widen_map(text) ==
    [data |-> [i \in Cells(2 * text.width * text.height) |->
                  LET ch == text.data[i \div 2]
                  IN  IF ch = "Single"
                      THEN (IF i % 2 = 0 THEN "WideLeft" ELSE "WideRight")
                      ELSE IF ch = "Player"
                      THEN (IF i % 2 = 0 THEN "Player" ELSE "Empty")
                      ELSE ch],
     width |-> 2 * text.width, height |-> text.height]

\* Sokoban::from_str: player_pos is the position of the first '@'
from_str(text) ==
    [data |-> text.data,
     tiles |-> [width |-> text.width, height |-> text.height],
     player_pos |-> CHOOSE p \in DOMAIN text.data :
                        /\ text.data[p] = "Player"
                        /\ \A q \in DOMAIN text.data : text.data[q] = "Player" => p <= q]

\* maps of '[', ']', '.' and one '@' where every '[' has its ']' to its
\* right in its row: lefts are the positions of the '['
WideMapText ==
    UNION {{[data |-> [i \in Cells(w * h) |->
                          IF i = p THEN "Player"
                          ELSE IF i \in lefts THEN "WideLeft"
                          ELSE IF i > 0 /\ (i - 1) \in lefts THEN "WideRight"
                          ELSE "Empty"],
             width |-> w, height |-> h] :
               <<p, lefts>> \in
                   {pl \in Cells(w * h) \X SUBSET Cells(w * h) :
                       /\ Cardinality(pl[2]) <= MaxWideBoulders
                       /\ \A l \in pl[2] :
                              /\ (l % w) + 1 < w
                              /\ (l + 1) \notin pl[2]
                              /\ pl[1] \notin {l, l + 1}}} :
           <<w, h>> \in {wh \in (2..MaxWideCells) \X (2..MaxWideCells) :
                            wh[1] * wh[2] <= MaxWideCells}}

\* the boards main plays on: parse_part_1_problem parses the map as it is
\* (short maps of any of the six characters, longer ones of wide boulders
\* on empty ground), parse_part_2_problem parses what widen_map makes of it
\* (of a map without '[' and ']', which widen_map would leave single in
\* lines no longer of equal length)
Sokoban ==
    {from_str(text) : text \in MapText(Entity) \cup WideMapText}
        \cup {from_str(widen_map(text)) :
                 text \in MapText({"Wall", "Single", "Empty", "Player"})}

\* Direction::is_horizontal
is_horizontal(self) == self \in {"Left", "Right"}

\* Vec::swap
swap(data, a, b) == [data EXCEPT ![a] = data[b], ![b] = data[a]]

\* the closure handed to flat_map in Sokoban::forward reaches its panic!
\* or the unwrap of a None on the entity at pos
border_panics(self, dr, pos) ==
    LET entity == self.data[pos]
    IN  \/ entity = "Wall"
        \/ /\ ~is_horizontal(dr)
           /\ \/ entity = "WideLeft" /\ dir_to(self.tiles, pos, "Right") = None
              \/ entity = "WideRight" /\ dir_to(self.tiles, pos, "Left") = None

\* the closure handed to flat_map in Sokoban::forward with every boulder
\* taken as Single: the other half of a wide boulder is left out
border_cells_halves_apart(self, dr, pos) ==
    IF self.data[pos] = "Empty" THEN {} ELSE {pos}

\* the closure handed to flat_map in Sokoban::forward: the positions the
\* entity at pos adds to the border
border_cells(self, dr, pos) ==
    LET entity == self.data[pos]
    IN  IF entity = "Empty" THEN {}
        ELSE IF is_horizontal(dr) \/ entity \in {"Single", "Player"} THEN {pos}
        ELSE IF entity = "WideLeft"
        THEN {pos} \cup Range(dir_to(self.tiles, pos, "Right"))
        ELSE {pos} \cup Range(dir_to(self.tiles, pos, "Left"))

\* the loop of Sokoban::forward from the border it has reached: layers are
\* the borders to_move was extended with so far, the first being the
\* player's position.  The result tells how the loop is left ("return"
\* before anything is moved, "push", "panic") and the layers of to_move.
RECURSIVE forward_loop(_, _, _)
forward_loop(self, dr, layers) ==
    LET border == layers[Len(layers)]
        ahead == {dir_to(self.tiles, pos, dr) : pos \in border}
        next_border == {a[1] : a \in ahead \ {None}}
        added == UNION {border_cells(self, dr, pos) : pos \in next_border}
        panics == \E pos \in next_border : border_panics(self, dr, pos)
    IN  IF None \in ahead
        THEN [exit |-> "return", layers |-> layers]
        ELSE IF \E pos \in next_border : self.data[pos] = "Wall"
        THEN [exit |-> "return", layers |-> layers]
        ELSE IF \A pos \in next_border : self.data[pos] = "Empty"
        THEN [exit |-> "push", layers |-> layers]
        ELSE IF panics
        THEN [exit |-> "panic", layers |-> layers]
        ELSE forward_loop(self, dr, Append(layers, added))

\* the orders a HashSet can be iterated in
IterationOrders(S) == {q \in [1..Cardinality(S) -> S] : Range(q) = S}

\* the for loop of Sokoban::forward over part of to_move, from its last
\* position to its first: each entity is swapped with the cell ahead
RECURSIVE swap_reversed(_, _, _, _)
swap_reversed(data, t, dr, part) ==
    IF part = <<>> THEN data
    ELSE LET pos == part[Len(part)]
         IN  swap_reversed(swap(data, pos, dir_to(t, pos, dr)[1]), t, dr,
                           SubSeq(part, 1, Len(part) - 1))

\* the data the for loop of Sokoban::forward can leave, to_move being the
\* first k layers each in one of the orders its HashSet can be iterated in
RECURSIVE pushed(_, _, _, _, _)
pushed(data, t, dr, layers, k) ==
    IF k = 0 THEN {data}
    ELSE UNION {pushed(swap_reversed(data, t, dr, part), t, dr, layers, k - 1) :
                   part \in IterationOrders(layers[k])}

\* a Sokoban as from_str returned it, before any call of forward
D15Init ==
    \E parsed \in Sokoban :
        day15 = [sokoban |-> parsed,
                 d15_dir |-> None,
                 d15_exit |-> "none",
                 d15_to_move |-> {}]

\* forward is not called: day15 has no other field
D15Idle == day15 = [d15_exit |-> "idle"]

\* Sokoban::forward(dir) that returns from its loop with player_pos moved
\* all the same, where the grid has a cell ahead: the assignment placed
\* before the loop
ForwardReturn_player_moved ==
    /\ d15_exit \in {"none", "return", "push"}
    /\ \E dr \in Direction :
           LET found == forward_loop(sokoban, dr, <<{sokoban.player_pos}>>)
           IN  /\ found.exit = "return"
               /\ day15' = [sokoban |->
                                 [sokoban EXCEPT
                                     !.player_pos =
                                         (dir_to(sokoban.tiles, sokoban.player_pos, dr)
                                              \o <<sokoban.player_pos>>)[1]],
                             d15_dir |-> Some(dr),
                             d15_exit |-> "return",
                             d15_to_move |-> UNION Range(found.layers)]
    /\ UNCHANGED notD15

\* Sokoban::forward(dir) that returns from its loop before anything moved:
\* a cell ahead of the border is off the grid or holds a wall
ForwardReturn ==
    /\ d15_exit \in {"none", "return", "push"}
    /\ \E dr \in Direction :
           LET found == forward_loop(sokoban, dr, <<{sokoban.player_pos}>>)
           IN  /\ found.exit = "return"
               /\ day15' = [sokoban |-> sokoban,
                             d15_dir |-> Some(dr),
                             d15_exit |-> "return",
                             d15_to_move |-> UNION Range(found.layers)]
    /\ UNCHANGED notD15

\* Sokoban::forward(dir) that pushes and leaves player_pos as it was
ForwardPush_pos_kept ==
    /\ d15_exit \in {"none", "return", "push"}
    /\ \E dr \in Direction :
           LET found == forward_loop(sokoban, dr, <<{sokoban.player_pos}>>)
           IN  /\ found.exit = "push"
               /\ \E moved \in pushed(sokoban.data, sokoban.tiles, dr,
                                      found.layers, Len(found.layers)) :
                      day15' = [sokoban |->
                                    [sokoban EXCEPT !.data = moved],
                                d15_dir |-> Some(dr),
                                d15_exit |-> "push",
                                d15_to_move |-> UNION Range(found.layers)]
    /\ UNCHANGED notD15

\* Sokoban::forward(dir) that finds every cell ahead of the border empty:
\* every entity of to_move is swapped with the cell ahead, last first, and
\* player_pos moves
ForwardPush ==
    /\ d15_exit \in {"none", "return", "push"}
    /\ \E dr \in Direction :
           LET found == forward_loop(sokoban, dr, <<{sokoban.player_pos}>>)
           IN  /\ found.exit = "push"
               /\ \E moved \in pushed(sokoban.data, sokoban.tiles, dr,
                                      found.layers, Len(found.layers)) :
                      day15' = [sokoban |->
                                    [sokoban EXCEPT
                                        !.data = moved,
                                        !.player_pos =
                                            dir_to(sokoban.tiles,
                                                   sokoban.player_pos, dr)[1]],
                                d15_dir |-> Some(dr),
                                d15_exit |-> "push",
                                d15_to_move |-> UNION Range(found.layers)]
    /\ UNCHANGED notD15

\* Sokoban::forward(dir) that panics while it builds a border: half of a
\* wide boulder pushed up or down has no cell beside it
ForwardPanic ==
    /\ d15_exit \in {"none", "return", "push"}
    /\ \E dr \in Direction :
           LET found == forward_loop(sokoban, dr, <<{sokoban.player_pos}>>)
           IN  /\ found.exit = "panic"
               /\ day15' = [sokoban |-> sokoban,
                             d15_dir |-> Some(dr),
                             d15_exit |-> "panic",
                             d15_to_move |-> UNION Range(found.layers)]
    /\ UNCHANGED notD15

---------------------------------------------------------------------------
(* src/src/bin/day13.rs *)

\* largest component of a button
MaxButton == 3
\* largest component of a prize
MaxPrize == 5

\* a Point is the pair of its components
PointAdd(p, q) == <<p[1] + q[1], p[2] + q[2]>>
PointSub(p, q) == <<p[1] - q[1], p[2] - q[2]>>

\* the % and / of i64: the quotient is rounded towards zero and the
\* remainder has the sign of the dividend
rem(x, y) == IF x >= 0 THEN x % y ELSE 0 - ((0 - x) % y)
quot(x, y) == IF x >= 0 THEN x \div y ELSE 0 - ((0 - x) \div y)

\* the machines the solvers are called on: buttons and prizes with
\* positive components
ClawInput ==
    {[a |-> a, b |-> b, prize |-> p] :
        a \in (1..MaxButton) \X (1..MaxButton),
        b \in (1..MaxButton) \X (1..MaxButton),
        p \in (1..MaxPrize) \X (1..MaxPrize)}

\* the derived order of State (tokens, then point) and of Point
StateLess(s, t) ==
    \/ s[1] < t[1]
    \/ s[1] = t[1] /\ s[2][1] < t[2][1]
    \/ s[1] = t[1] /\ s[2][1] = t[2][1] /\ s[2][2] < t[2][2]

\* the entry BinaryHeap<Reverse<State>>::pop returns: the position in the
\* list of a least State
state_least(h) ==
    CHOOSE k \in 1..Len(h) :
        \A m \in 1..Len(h) : ~StateLess(h[m], h[k]) /\ (h[m] = h[k] => k <= m)

\* what one pass of the while loop pushes for the popped State
pressed(tokens, point, m) ==
    LET point_after_a == PointAdd(point, m.a)
        delta == PointSub(m.prize, point)
    IN  (IF point_after_a[1] <= m.prize[1] /\ point_after_a[2] <= m.prize[2]
         THEN <<<<tokens + 3, point_after_a>>>>
         ELSE <<>>)
        \o (IF /\ rem(delta[1], m.b[1]) = 0
               /\ rem(delta[2], m.b[2]) = 0
               /\ quot(delta[1], m.b[1]) = quot(delta[2], m.b[2])
            THEN <<<<tokens + quot(delta[1], m.b[1]), m.prize>>>>
            ELSE <<>>)

\* linear_algebra_solver: the divisor before its sign is taken off
divisor_of(m) == m.a[2] * m.b[1] - m.a[1] * m.b[2]

\* linear_algebra_solver where the divisor is not zero
linear_algebra_solver(m) ==
    LET unsigned == divisor_of(m)
        divisor == IF unsigned < 0 THEN 0 - unsigned ELSE unsigned
        sign == IF unsigned < 0 THEN 0 - 1 ELSE 1
        m_numerator == sign * (m.b[1] * m.prize[2] - m.b[2] * m.prize[1])
        n_numerator == sign * (m.a[2] * m.prize[1] - m.a[1] * m.prize[2])
    IN  IF rem(m_numerator, divisor) = 0 /\ rem(n_numerator, divisor) = 0
        THEN Some(quot(3 * m_numerator + n_numerator, divisor))
        ELSE None

D13Init ==
    \E machine \in ClawInput :
        day13 = [claw |-> machine,
                 d13_heap |-> <<>>,
                 d13_pc |-> "call",
                 d13_ret |-> None,
                 linear_exit |-> "call",
                 linear_ret |-> None]

\* the solvers are not called: day13 has no other field
D13Idle == day13 = [d13_pc |-> "idle"]

\* dijkstra_solver, the statements before the loop
DijkstraEnter ==
    /\ d13_pc = "call"
    /\ day13' = [day13 EXCEPT !.d13_heap = <<<<0, <<0, 0>>>>>>,
                              !.d13_pc = "loop"]
    /\ UNCHANGED notD13

\* dijkstra_solver, an iteration that pops the prize: its tokens are returned
DijkstraGoal ==
    /\ d13_pc = "loop"
    /\ d13_heap # <<>>
    /\ LET k == state_least(d13_heap)
       IN  /\ d13_heap[k][2] = claw.prize
           /\ day13' = [day13 EXCEPT !.d13_heap = heap_without(d13_heap, k),
                                     !.d13_ret = Some(d13_heap[k][1]),
                                     !.d13_pc = "done"]
    /\ UNCHANGED notD13

\* dijkstra_solver, an iteration that pops another point: the two actions
DijkstraPress ==
    /\ d13_pc = "loop"
    /\ d13_heap # <<>>
    /\ LET k == state_least(d13_heap)
       IN  /\ d13_heap[k][2] # claw.prize
           /\ day13' = [day13 EXCEPT
                           !.d13_heap =
                               heap_without(d13_heap, k)
                                   \o pressed(d13_heap[k][1], d13_heap[k][2], claw)]
    /\ UNCHANGED notD13

\* dijkstra_solver, the heap found empty: None
DijkstraNone ==
    /\ d13_pc = "loop"
    /\ d13_heap = <<>>
    /\ day13' = [day13 EXCEPT !.d13_ret = None, !.d13_pc = "done"]
    /\ UNCHANGED notD13

\* linear_algebra_solver on buttons whose divisor is not zero
LinearReturn ==
    /\ linear_exit = "call"
    /\ divisor_of(claw) # 0
    /\ day13' = [day13 EXCEPT !.linear_ret = linear_algebra_solver(claw),
                              !.linear_exit = "return"]
    /\ UNCHANGED notD13

\* linear_algebra_solver on parallel buttons: panic!("divisor zero")
LinearPanic ==
    /\ linear_exit = "call"
    /\ divisor_of(claw) = 0
    /\ day13' = [day13 EXCEPT !.linear_exit = "panic"]
    /\ UNCHANGED notD13

---------------------------------------------------------------------------
(* src/src/bin/day18.rs: Grid::new and Grid::mark *)

\* Grid::new
grid_new(width, height) ==
    [data |-> [i \in Cells(width * height) |-> FALSE],
     tile_index |-> [width |-> width, height |-> height]]

\* the index Grid::mark computes for a coord (x, y)
mark_index(self, coord) == self.tile_index.height * coord[2] + coord[1]

MarkInit ==
    \E wh \in {wh \in (1..MaxGridCells) \X (1..MaxGridCells) :
                  wh[1] * wh[2] <= MaxGridCells} :
        day18_mark = [marking |-> grid_new(wh[1], wh[2]),
                      mark_coord |-> None,
                      mark_exit |-> "none"]

\* mark is not called: day18_mark has no other field
MarkIdle == day18_mark = [mark_exit |-> "idle"]

\* Grid::mark on a coord inside the grid
GridMark ==
    /\ mark_exit \in {"none", "return"}
    /\ \E x \in Cells(marking.tile_index.width),
          y \in Cells(marking.tile_index.height) :
          LET at == mark_index(marking, <<x, y>>)
          IN  /\ at \in DOMAIN marking.data
              /\ day18_mark' = [marking |-> [marking EXCEPT !.data[at] = TRUE],
                                mark_coord |-> Some(<<x, y>>),
                                mark_exit |-> "return"]
    /\ UNCHANGED notMark

\* Grid::mark on a coord inside the grid whose index is past the end of data
GridMarkPanic ==
    /\ mark_exit \in {"none", "return"}
    /\ \E x \in Cells(marking.tile_index.width),
          y \in Cells(marking.tile_index.height) :
          /\ mark_index(marking, <<x, y>>) \notin DOMAIN marking.data
          /\ day18_mark' = [marking |-> marking,
                            mark_coord |-> Some(<<x, y>>),
                            mark_exit |-> "panic"]
    /\ UNCHANGED notMark

---------------------------------------------------------------------------
(* src/day06/src/main.rs *)

\* most cells of a world with any number of blocks
MaxWorldCells == 4
\* most cells of a world with few blocks
MaxLoopCells == 12
\* most blocks of a world with few blocks
MaxBlocks == 4

\* Pos + Direction, on u32 coordinates
pos_add(pos, dr) ==
    CASE dr = "Up" -> IF pos[2] = 0 THEN None ELSE Some(<<pos[1], pos[2] - 1>>)
      [] dr = "Down" -> Some(<<pos[1], pos[2] + 1>>)
      [] dr = "Left" -> IF pos[1] = 0 THEN None ELSE Some(<<pos[1] - 1, pos[2]>>)
      [] dr = "Right" -> Some(<<pos[1] + 1, pos[2]>>)

\* Player::peek_step
peek_step(self, width, height) ==
    LET p == pos_add(self.pos, self.dir)
    IN  IF p # None /\ p[1][1] < width /\ p[1][2] < height THEN p ELSE None

\* Direction::turn of day06
turn(dr) ==
    CASE dr = "Up" -> "Right"
      [] dr = "Right" -> "Down"
      [] dr = "Down" -> "Left"
      [] dr = "Left" -> "Up"

\* FieldMap::contains
contains(self, p) == self.data[self.width * p[2] + p[1]]

\* World::new: what it builds from a text of height lines, the longest of
\* width characters, with '#' at the positions blocks and the player the
\* last of the characters ^ V < > (or Up at (0, 0) without one)
world_new(width, height, blocks, player) ==
    [player |-> player,
     field_map |-> [width |-> width, height |-> height,
                    data |-> [i \in Cells(width * height) |->
                                 <<i % width, i \div width>> \in blocks]],
     width |-> width,
     height |-> height]

Positions(width, height) == Cells(width) \X Cells(height)

\* the players World::new can place on a world with these blocks: Up at
\* (0, 0) for a text without ^ V < >, else any cell but a block
Placed(width, height, blocks) ==
    {[dir |-> "Up", pos |-> <<0, 0>>]}
    \cup {[dir |-> dp[1], pos |-> dp[2]] :
             dp \in Direction \X (Positions(width, height) \ blocks)}

\* World::steps
steps(self) == [player |-> self.player, exhausted |-> FALSE]

\* the state at the for loop of is_infinite_looping, called on the Stepper
\* of a world
looping_on(self) ==
    [world |-> self,
     stepper |-> steps(self),
     player_states |-> {},
     last_pos |-> None,
     d06_pc |-> "loop",
     d06_ret |-> FALSE]

\* call is a call of is_infinite_looping on a world of at most cells cells,
\* at least least wide and high, with at most most blocks (a text without
\* lines has no width)
IsCallWithin(call, cells, least, most) ==
    \E wh \in {wh \in (least..cells) \X (least..cells) :
                  /\ wh[1] * wh[2] <= cells
                  /\ wh[2] = 0 => wh[1] = 0} :
        \E blocks \in {b \in SUBSET Positions(wh[1], wh[2]) :
                          Cardinality(b) <= most} :
            \E player \in Placed(wh[1], wh[2], blocks) :
                call = looping_on(world_new(wh[1], wh[2], blocks, player))

\* Iterator::next of Stepper: the item it returns and the Stepper after it
stepper_next(self, w) ==
    IF self.exhausted THEN [item |-> None, stepper |-> self]
    ELSE LET next_pos == peek_step(self.player, w.width, w.height)
         IN  [item |-> Some(self.player),
              stepper |->
                  IF next_pos = None THEN [self EXCEPT !.exhausted = TRUE]
                  ELSE IF contains(w.field_map, next_pos[1])
                       THEN [self EXCEPT !.player.dir = turn(self.player.dir)]
                       ELSE [self EXCEPT !.player.pos = next_pos[1]]]

\* HashSet::contains on the positions only
seen_at_pos(states, step) == \E s \in states : s.pos = step.pos

\* HashSet::contains
contains_state(states, step) == step \in states

D06Init ==
    \/ IsCallWithin(day06, MaxWorldCells, 0, MaxWorldCells)
    \/ IsCallWithin(day06, MaxLoopCells, 3, MaxBlocks)

\* is_infinite_looping is not called: day06 has no other field
D06Idle == day06 = [d06_pc |-> "idle"]

\* a pass of the loop that returns true
LoopingSeen ==
    /\ d06_pc = "loop"
    /\ LET n == stepper_next(stepper, world)
       IN  /\ n.item # None
           /\ last_pos = Some(n.item[1].pos)
           /\ contains_state(player_states, n.item[1])
           /\ day06' = [day06 EXCEPT !.stepper = n.stepper,
                                     !.d06_ret = TRUE,
                                     !.d06_pc = "done"]
    /\ UNCHANGED notD06

\* a pass of the loop that inserts the step
LoopingInsert ==
    /\ d06_pc = "loop"
    /\ LET n == stepper_next(stepper, world)
       IN  /\ n.item # None
           /\ last_pos = Some(n.item[1].pos)
           /\ ~contains_state(player_states, n.item[1])
           /\ day06' = [day06 EXCEPT
                           !.stepper = n.stepper,
                           !.player_states = player_states \cup {n.item[1]},
                           !.last_pos = Some(n.item[1].pos)]
    /\ UNCHANGED notD06

\* a pass of the loop on a step at another position than the last
LoopingMoved ==
    /\ d06_pc = "loop"
    /\ LET n == stepper_next(stepper, world)
       IN  /\ n.item # None
           /\ last_pos # Some(n.item[1].pos)
           /\ day06' = [day06 EXCEPT !.stepper = n.stepper,
                                     !.last_pos = Some(n.item[1].pos)]
    /\ UNCHANGED notD06

\* the iterator is exhausted: is_infinite_looping returns false
LoopingFalse ==
    /\ d06_pc = "loop"
    /\ stepper_next(stepper, world).item = None
    /\ day06' = [day06 EXCEPT !.d06_ret = FALSE, !.d06_pc = "done"]
    /\ UNCHANGED notD06

---------------------------------------------------------------------------
(* Specifications *)

\* the programs that appear in one specification each
OthersIdle == D13Idle /\ D06Idle /\ MarkIdle

SpecTilesInit == TilesInit /\ DirIdle /\ D10Idle /\ D12Idle /\ D18Idle /\ D20Idle /\ D16Idle /\ D15Idle /\ OthersIdle
SpecTilesNext == CallRight \/ CallLeft \/ CallUp \/ CallDown \/ CallDirTo
SpecTiles == SpecTilesInit /\ [][SpecTilesNext]_vars

SpecDirInit == DirInit /\ TilesIdle /\ D10Idle /\ D12Idle /\ D18Idle /\ D20Idle /\ D16Idle /\ D15Idle /\ OthersIdle
SpecDirNext == Clock \/ Counterclock
SpecDir == SpecDirInit /\ [][SpecDirNext]_vars

\* FieldMap::dfs
SpecDfsInit == D10Init /\ TilesIdle /\ DirIdle /\ D12Idle /\ D18Idle /\ D20Idle /\ D16Idle /\ D15Idle /\ OthersIdle
SpecDfsNext == DfsEnter \/ DfsSkip \/ DfsVisit \/ DfsReturn
SpecDfs == SpecDfsInit /\ [][SpecDfsNext]_vars

\* FieldMap::trailhead_score
SpecScoreInit == D10ScoreInit /\ TilesIdle /\ DirIdle /\ D12Idle /\ D18Idle /\ D20Idle /\ D16Idle /\ D15Idle /\ OthersIdle
SpecScoreNext == DfsEnter \/ DfsSkip \/ DfsVisit \/ DfsReturn \/ ScoreReturn
SpecScore == SpecScoreInit /\ [][SpecScoreNext]_vars

\* Maze::costs
SpecCostsInit == D20Init /\ TilesIdle /\ DirIdle /\ D10Idle /\ D12Idle /\ D18Idle /\ D16Idle /\ D15Idle /\ OthersIdle
SpecCostsNext ==
    CostsEnter \/ CostsWhile \/ CostsSkip \/ CostsVisit \/ CostsNextLevel \/ CostsReturn
SpecCosts == SpecCostsInit /\ [][SpecCostsNext]_vars

\* Plot::collect_regions
SpecRegionsInit == D12Init /\ TilesIdle /\ DirIdle /\ D10Idle /\ D18Idle /\ D20Idle /\ D16Idle /\ D15Idle /\ OthersIdle
SpecRegionsNext ==
    RegionsEnter \/ RegionsStart \/ RegionsSkip \/ RegionsVisit \/ RegionsPush
        \/ RegionsReturn
SpecRegions == SpecRegionsInit /\ [][SpecRegionsNext]_vars

\* Grid::step_count
SpecStepsInit == D18Init /\ TilesIdle /\ DirIdle /\ D10Idle /\ D12Idle /\ D20Idle /\ D16Idle /\ D15Idle /\ OthersIdle
SpecStepsNext ==
    StepsEnter \/ StepsWhile \/ StepsSkip \/ StepsGoal \/ StepsVisit
        \/ StepsNextLevel \/ StepsNone
SpecSteps == SpecStepsInit /\ [][SpecStepsNext]_vars

\* one call of FieldMap::dfs or one call of Plot::collect_regions
SpecDfsRegionsInit ==
    /\ \/ D10Init /\ D12Idle
       \/ D10Idle /\ D12Init
    /\ TilesIdle /\ DirIdle /\ D18Idle /\ D20Idle /\ D16Idle /\ D15Idle /\ OthersIdle
SpecDfsRegionsNext == SpecDfsNext \/ SpecRegionsNext
SpecDfsRegions == SpecDfsRegionsInit /\ [][SpecDfsRegionsNext]_vars

\* one call of FieldMap::dfs or one call of Grid::step_count
SpecDfsStepsInit ==
    /\ \/ D10Init /\ D18Idle
       \/ D10Idle /\ D18Init
    /\ TilesIdle /\ DirIdle /\ D12Idle /\ D20Idle /\ D16Idle /\ D15Idle /\ OthersIdle
SpecDfsStepsNext == SpecDfsNext \/ SpecStepsNext
SpecDfsSteps == SpecDfsStepsInit /\ [][SpecDfsStepsNext]_vars

\* one call of FieldMap::dfs or one call of Maze::costs
SpecDfsCostsInit ==
    /\ \/ D10Init /\ D20Idle
       \/ D10Idle /\ D20Init
    /\ TilesIdle /\ DirIdle /\ D12Idle /\ D18Idle /\ D16Idle /\ D15Idle /\ OthersIdle
SpecDfsCostsNext == SpecDfsNext \/ SpecCostsNext
SpecDfsCosts == SpecDfsCostsInit /\ [][SpecDfsCostsNext]_vars

\* search
SpecSearchInit ==
    D16Init /\ TilesIdle /\ DirIdle /\ D10Idle /\ D12Idle /\ D18Idle /\ D20Idle
        /\ D15Idle /\ OthersIdle
SpecSearchNext ==
    SearchEnter \/ SearchSkip \/ SearchGoal \/ SearchVisit \/ SearchNone
SpecSearch == SpecSearchInit /\ [][SpecSearchNext]_vars

\* calls of Sokoban::forward on a parsed board
SpecSokobanInit ==
    D15Init /\ TilesIdle /\ DirIdle /\ D10Idle /\ D12Idle /\ D18Idle /\ D20Idle
        /\ D16Idle /\ OthersIdle
SpecSokobanNext == ForwardReturn \/ ForwardPush \/ ForwardPanic
SpecSokoban == SpecSokobanInit /\ [][SpecSokobanNext]_vars

\* dijkstra_solver and linear_algebra_solver on one machine
SpecSolversInit ==
    D13Init /\ TilesIdle /\ DirIdle /\ D10Idle /\ D12Idle /\ D18Idle /\ D20Idle
        /\ D16Idle /\ D15Idle /\ D06Idle /\ MarkIdle
SpecSolversNext ==
    DijkstraEnter \/ DijkstraGoal \/ DijkstraPress \/ DijkstraNone
        \/ LinearReturn \/ LinearPanic
SpecSolvers == SpecSolversInit /\ [][SpecSolversNext]_vars

\* calls of Grid::mark on a Grid built by Grid::new
SpecMarkInit ==
    MarkInit /\ TilesIdle /\ DirIdle /\ D10Idle /\ D12Idle /\ D18Idle /\ D20Idle
        /\ D16Idle /\ D15Idle /\ D13Idle /\ D06Idle
SpecMarkNext == GridMark \/ GridMarkPanic
SpecMark == SpecMarkInit /\ [][SpecMarkNext]_vars

\* Stepper::is_infinite_looping
SpecLoopingInit ==
    D06Init /\ TilesIdle /\ DirIdle /\ D10Idle /\ D12Idle /\ D18Idle /\ D20Idle
        /\ D16Idle /\ D15Idle /\ D13Idle /\ MarkIdle
SpecLoopingNext == LoopingSeen \/ LoopingInsert \/ LoopingMoved \/ LoopingFalse
SpecLooping == SpecLoopingInit /\ [][SpecLoopingNext]_vars

---------------------------------------------------------------------------
(* Properties of TileIndex, under SpecTiles *)

\* row and column of a linear index (spec section 3: row-major)
RowOf(i) == i \div tiles.width
ColOf(i) == i % tiles.width

\* C1: on every grid and valid index, right(index) is Some(index+1) unless
\* index is in the last column of its row, and then it is None.
C1_RightContract ==
    fn1 = "right" =>
        ret1 = IF ColOf(index) = tiles.width - 1 THEN None ELSE Some(index + 1)

\* right was called on the last cell of a row that is not the last row
C1_Witness ==
    /\ fn1 = "right"
    /\ ColOf(index) = tiles.width - 1
    /\ index + 1 < tiles.width * tiles.height
    /\ ret1 = None

\* C2: on every grid and valid index, left(index) is Some(index-1) unless
\* index is in the first column of its row, and then it is None.
C2_LeftContract ==
    fn1 = "left" =>
        ret1 = IF ColOf(index) = 0 THEN None ELSE Some(index - 1)

\* left was called on the first cell of a row that is not the first row
C2_Witness ==
    /\ fn1 = "left"
    /\ ColOf(index) = 0
    /\ index > 0
    /\ ret1 = None

\* C3: on every grid and valid index, up(index) is Some(index-width) unless
\* index is in the first row (index < width), and then it is None.
C3_UpContract ==
    fn1 = "up" =>
        ret1 = IF index < tiles.width THEN None ELSE Some(index - tiles.width)

\* up was called on a cell of the second row that is not in the first column
C3_Witness ==
    /\ fn1 = "up"
    /\ RowOf(index) = 1
    /\ ColOf(index) > 0
    /\ ret1 = Some(index - tiles.width)

\* C4: on every grid and valid index, down(index) is Some(index+width) when
\* the row of index is above the last row, and None when index is in the
\* last row.
C4_DownContract ==
    fn1 = "down" =>
        /\ RowOf(index) < tiles.height - 1 => ret1 = Some(index + tiles.width)
        /\ index >= tiles.width * (tiles.height - 1) => ret1 = None
        /\ ret1 # None <=> RowOf(index) < tiles.height - 1

\* down was called on a cell of the last row of a grid of several rows
C4_Witness ==
    /\ fn1 = "down"
    /\ tiles.height > 1
    /\ RowOf(index) = tiles.height - 1
    /\ ret1 = None

\* C5: on every valid index and direction, dir_to(index, d) returns what the
\* function of that direction returns.
C5_DirToDispatch ==
    fn1 = "dir_to" =>
        /\ dir = "Left"  => ret1 = left(tiles, index)
        /\ dir = "Right" => ret1 = right(tiles, index)
        /\ dir = "Up"    => ret1 = up(tiles, index)
        /\ dir = "Down"  => ret1 = down(tiles, index)

\* dir_to was called with Down where down has a neighbour and up has none
C5_Witness ==
    /\ fn1 = "dir_to"
    /\ dir = "Down"
    /\ RowOf(index) = 0
    /\ ret1 = Some(index + tiles.width)

\* C6: right then left, when both succeed, returns to index; so does down
\* then up.
C6_RoundTrip ==
    /\ (fn1 = "right" /\ fn2 = "left" /\ ret2 # None) => ret2 = Some(index)
    /\ (fn1 = "down" /\ fn2 = "up" /\ ret2 # None) => ret2 = Some(index)

\* down then up both succeeded on a grid that is not square
C6_Witness ==
    /\ fn1 = "down" /\ ret1 # None
    /\ fn2 = "up" /\ ret2 # None
    /\ tiles.width # tiles.height

\* C7: with height 1, up and down return None on every valid index; with
\* width 1, left and right return None on every valid index; on the 1x1
\* grid all four do, called directly or through dir_to.
C7_Degenerate ==
    /\ (tiles.height = 1 /\ fn1 \in {"up", "down"}) => ret1 = None
    /\ (tiles.width = 1 /\ fn1 \in {"left", "right"}) => ret1 = None
    /\ (tiles.height = 1 /\ fn1 = "dir_to" /\ dir \in {"Up", "Down"}) => ret1 = None
    /\ (tiles.width = 1 /\ fn1 = "dir_to" /\ dir \in {"Left", "Right"}) => ret1 = None

\* down was called on a single row of several cells
C7_Witness ==
    /\ tiles.height = 1
    /\ tiles.width > 1
    /\ fn1 = "down"
    /\ ret1 = None

\* the valid indices of the grid
ValidIndices == 0..(tiles.width * tiles.height - 1)

\* C26: a Some(j) that dir_to returns on a valid index is a valid index
\* itself, 0 <= j < width * height, and so is what dir_to returns on that j:
\* a returned neighbour never indexes the grid buffer out of bounds.
C26_NeighbourValid ==
    /\ (fn1 = "dir_to" /\ ret1 # None) => ret1[1] \in ValidIndices
    /\ (fn1 = "dir_to" /\ fn2 = "dir_to" /\ ret2 # None) =>
           ret2[1] \in ValidIndices

\* dir_to returned a neighbour and, called on it, the last index of a grid
\* of several rows and columns
C26_Witness ==
    /\ fn1 = "dir_to"
    /\ fn2 = "dir_to"
    /\ tiles.width > 1
    /\ tiles.height > 1
    /\ ret1 # None
    /\ ret2 = Some(tiles.width * tiles.height - 1)

---------------------------------------------------------------------------
(* Properties of Direction, under SpecDir *)

\* C8: clock applied four times to a direction returns it, and clock
\* applied after counterclock returns it.
C8_Rotations ==
    /\ rots = <<"clock", "clock", "clock", "clock">> => d = d0
    /\ rots = <<"counterclock", "clock">> => d = d0

\* four clockwise rotations were applied
C8_Witness ==
    /\ rots = <<"clock", "clock", "clock", "clock">>
    /\ d = d0

---------------------------------------------------------------------------
(* Properties of FieldMap::dfs, under SpecDfs *)

\* cells i and j of the field are orthogonal neighbours in the grid
Orthogonal(i, j) ==
    LET w == field.tiles.width
        dr == (i \div w) - (j \div w)
        dc == (i % w) - (j % w)
    IN  dr * dr + dc * dc = 1

\* one move of a trail: to an orthogonal neighbour exactly one higher
Climbs(i, j) ==
    /\ Orthogonal(i, j)
    /\ field.data[j] = field.data[i] + 1

\* the cells reachable from S by zero or more moves
RECURSIVE ReachableFrom(_)
ReachableFrom(S) ==
    LET T == S \cup {j \in DOMAIN field.data : \E i \in S : Climbs(i, j)}
    IN  IF T = S THEN S ELSE ReachableFrom(T)

\* C9: dfs(starts) returns exactly the cells reachable from a start by moves
\* to in-grid orthogonal neighbours one higher, each of them once.
C9_DfsReachable ==
    d10_pc = "done" =>
        /\ Range(d10_ret) = ReachableFrom(Range(d10_start))
        /\ \A k, l \in 1..Len(d10_ret) : d10_ret[k] = d10_ret[l] => k = l

\* dfs returned, from one start, a cell it pushed from two neighbours
C9_Witness ==
    /\ d10_pc = "done"
    /\ Len(d10_start) = 1
    /\ \E j \in Range(d10_ret) : \E i1, i2 \in Range(d10_ret) :
           i1 # i2 /\ Climbs(i1, j) /\ Climbs(i2, j)

---------------------------------------------------------------------------
(* Properties of Maze::costs, under SpecCosts *)

\* cells i and j of the maze are orthogonal neighbours in the grid
MazeOrthogonal(i, j) ==
    LET dr == (i \div maze.width) - (j \div maze.width)
        dc == (i % maze.width) - (j % maze.width)
    IN  dr * dr + dc * dc = 1

\* the cells within k moves of start_pos, a move entering a cell not '#'
RECURSIVE Within(_)
Within(k) ==
    IF k = 0 THEN {maze.start_pos}
    ELSE LET B == Within(k - 1)
         IN  B \cup {j \in DOMAIN maze.data :
                        maze.data[j] # "#" /\ \E i \in B : MazeOrthogonal(i, j)}

\* the cells some sequence of moves reaches from start_pos
MazeReachable == Within(Cardinality(DOMAIN maze.data))

\* the least number of moves from start_pos to a reachable cell
Distance(c) ==
    CHOOSE k \in 0..Cardinality(DOMAIN maze.data) :
        c \in Within(k) /\ (k = 0 \/ c \notin Within(k - 1))

\* costs is running or has returned
CostsStarted == d20_pc \in {"while", "for", "done"}

\* the cells discovered so far: visited, or pending in a frontier list
Discovered ==
    {c \in DOMAIN maze.data : d20_visited[c]}
        \cup Range(d20_next_to_visit)
        \cup (IF d20_pc = "for" THEN Range(d20_iter) ELSE Range(d20_to_visit))

\* every visited cell carries its least number of moves from start_pos
CostsMinimal ==
    CostsStarted =>
        \A c \in DOMAIN maze.data :
            d20_visited[c] => c \in MazeReachable /\ costs[c] = Distance(c)

\* C10 as stated: when a cell at distance d+1 has been discovered, every
\* cell at distance d is visited; and the recorded costs are minimal.
C10_DiscoveredAfterLevel ==
    /\ CostsStarted =>
           \A c \in Discovered : \A b \in MazeReachable :
               Distance(b) + 1 = Distance(c) => d20_visited[b]
    /\ CostsMinimal

\* every cell at distance d is visited before any cell at distance d+1 is
VisitedInLevelOrder ==
    CostsStarted =>
        \A c \in DOMAIN maze.data : \A b \in MazeReachable :
            (d20_visited[c] /\ Distance(b) + 1 = Distance(c)) => d20_visited[b]

\* a step leaves the cost of every visited cell as it is
CostKept ==
    \A c \in DOMAIN d20_visited : d20_visited[c] => costs'[c] = costs[c]

\* C10, amended: every cell at distance d from start_pos is visited before
\* any cell at distance d+1 is visited (cells at distance d+1 are pushed on
\* next_to_visit while cells at distance d are still pending); the cost
\* recorded for a cell is its least number of moves from start_pos and is
\* never overwritten.
C10_VisitedAfterLevel ==
    /\ [](VisitedInLevelOrder /\ CostsMinimal)
    /\ [][CostKept]_vars

\* costs returned a cost of 2 for a cell that two cells of cost 1 pushed
C10_Witness ==
    /\ d20_pc = "done"
    /\ \E c, b1, b2 \in DOMAIN maze.data :
           /\ b1 # b2
           /\ MazeOrthogonal(b1, c) /\ MazeOrthogonal(b2, c)
           /\ d20_ret[b1] = 1 /\ d20_ret[b2] = 1 /\ d20_ret[c] = 2

---------------------------------------------------------------------------
(* Properties of the frontier discipline of FieldMap::dfs and              *)
(* Plot::collect_regions, under SpecDfsRegions                             *)

\* q without its last element
Popped(q) == SubSeq(q, 1, Len(q) - 1)

\* a step of dfs obeys the discipline: a flag rises only for the index the
\* step pops; an index the step pushes keeps its flag; a visited index that
\* is popped is dropped with nothing else changed; a step that pushes or
\* evaluates the filter pops an unvisited index and marks it
DfsDiscipline ==
    /\ \A c \in DOMAIN d10_visited :
           (~d10_visited[c] /\ d10_visited'[c]) =>
               /\ d10_to_visit # <<>>
               /\ c = d10_to_visit[Len(d10_to_visit)]
               /\ Len(d10_to_visit') >= Len(d10_to_visit) - 1
               /\ SubSeq(d10_to_visit', 1, Len(d10_to_visit) - 1) = Popped(d10_to_visit)
    /\ d10_pc = "call" =>
           \A k \in 1..Len(d10_to_visit') : ~d10_visited'[d10_to_visit'[k]]
    /\ d10_pc = "loop" =>
           \A k \in 1..Len(d10_to_visit') :
               k >= Len(d10_to_visit) =>
                   d10_visited'[d10_to_visit'[k]] = d10_visited[d10_to_visit'[k]]
    /\ (d10_pc = "loop" /\ d10_to_visit # <<>>
            /\ d10_visited[d10_to_visit[Len(d10_to_visit)]]) =>
           /\ d10_to_visit' = Popped(d10_to_visit)
           /\ d10_visited' = d10_visited
           /\ d10_evals' = d10_evals
    /\ (d10_pc = "loop" /\ d10_to_visit # <<>>
            /\ (Len(d10_to_visit') >= Len(d10_to_visit) \/ d10_evals' # d10_evals)) =>
           /\ ~d10_visited[d10_to_visit[Len(d10_to_visit)]]
           /\ d10_visited'[d10_to_visit[Len(d10_to_visit)]]
    /\ \A c \in DOMAIN d10_visited : d10_visited[c] => d10_visited'[c]

\* a step of collect_regions obeys the same discipline, an expansion being
\* a step that pushes or that records an index in indices
RegionsDiscipline ==
    /\ \A c \in DOMAIN d12_visited :
           (~d12_visited[c] /\ d12_visited'[c]) =>
               /\ d12_queue # <<>>
               /\ c = d12_queue[Len(d12_queue)]
               /\ Len(d12_queue') >= Len(d12_queue) - 1
               /\ SubSeq(d12_queue', 1, Len(d12_queue) - 1) = Popped(d12_queue)
    /\ d12_pc = "loop" =>
           \A k \in 1..Len(d12_queue') : ~d12_visited'[d12_queue'[k]]
    /\ d12_pc = "while" =>
           \A k \in 1..Len(d12_queue') :
               k >= Len(d12_queue) =>
                   d12_visited'[d12_queue'[k]] = d12_visited[d12_queue'[k]]
    /\ (d12_pc = "while" /\ d12_queue # <<>>
            /\ d12_visited[d12_queue[Len(d12_queue)]]) =>
           /\ d12_queue' = Popped(d12_queue)
           /\ d12_visited' = d12_visited
           /\ d12_indices' = d12_indices
    /\ (d12_pc = "while" /\ d12_queue # <<>>
            /\ (Len(d12_queue') >= Len(d12_queue) \/ d12_indices' # d12_indices)) =>
           /\ ~d12_visited[d12_queue[Len(d12_queue)]]
           /\ d12_visited'[d12_queue[Len(d12_queue)]]
    /\ \A c \in DOMAIN d12_visited : d12_visited[c] => d12_visited'[c]

\* C11: a cell's visited flag rises only at the step that pops the cell,
\* never at the step that pushes it; a cell popped while visited is
\* skipped; so a cell is expanded at most once in a call: every expansion
\* pops an unvisited cell and marks it, and no flag ever falls.
C11_MarkedAtPop == [][DfsDiscipline /\ RegionsDiscipline]_vars

\* dfs, called with one start, is about to pop an index that is visited: two
\* neighbours pushed it
C11_Witness ==
    /\ d10_pc = "loop"
    /\ Len(d10_start) = 1
    /\ d10_to_visit # <<>>
    /\ d10_visited[d10_to_visit[Len(d10_to_visit)]]

---------------------------------------------------------------------------
(* Properties of the filter evaluations of FieldMap::dfs and               *)
(* Grid::step_count, under SpecDfsSteps                                    *)

\* no element of q occurs twice in it
NoRepeats(q) == \A k, l \in 1..Len(q) : q[k] = q[l] => k = l

\* C12: in one call, the passability test is evaluated at most once on
\* every ordered pair (from, to) of adjacent cells.
C12_EvaluatedOnce ==
    /\ NoRepeats(d10_evals)
    /\ NoRepeats(d18_evals)

\* step_count returned after evaluating its filter on a pair of cells in
\* both directions, and dfs is not what ran
C12_Witness ==
    /\ d18_pc = "done"
    /\ \E i, j \in DOMAIN grid.data :
           /\ <<i, j>> \in Range(d18_evals)
           /\ <<j, i>> \in Range(d18_evals)

---------------------------------------------------------------------------
(* Properties of the results of FieldMap::dfs and Maze::costs, under       *)
(* SpecDfsCosts                                                            *)

\* the list dfs returned holds no cell that no start reaches
DfsOmitsUnreachable ==
    d10_pc = "done" =>
        \A c \in DOMAIN field.data :
            c \notin ReachableFrom(Range(d10_start)) => c \notin Range(d10_ret)

---------------------------------------------------------------------------
(* Properties of FieldMap::dfs on an empty start, under SpecDfs *)

\* C14: dfs with no start index returns the empty list, on every field: the
\* loop body never runs and no flag is set.
C14_EmptyStart ==
    d10_start = <<>> =>
        /\ d10_pc = "loop" => d10_to_visit = <<>> /\ ENABLED DfsReturn
        /\ d10_pc = "done" =>
               /\ d10_ret = <<>>
               /\ \A c \in DOMAIN d10_visited : ~d10_visited[c]

\* dfs returned from a call with no start on a field of several cells
C14_Witness ==
    /\ d10_pc = "done"
    /\ d10_start = <<>>
    /\ Cardinality(DOMAIN field.data) > 1
    /\ d10_ret = <<>>

---------------------------------------------------------------------------
(* Properties of the states of a cell in FieldMap::dfs and                 *)
(* Plot::collect_regions, under SpecDfsRegions                             *)

\* the indices a step of dfs pushes on to_visit
DfsPushed ==
    IF d10_pc = "loop" /\ d10_to_visit # <<>>
    THEN {d10_to_visit'[k] : k \in Len(d10_to_visit)..Len(d10_to_visit')}
    ELSE {}

\* the indices a step of collect_regions pushes on queue
RegionsPushed ==
    IF d12_pc = "while" /\ d12_queue # <<>>
    THEN {d12_queue'[k] : k \in Len(d12_queue)..Len(d12_queue')}
    ELSE IF d12_pc = "loop" THEN Range(d12_queue') ELSE {}

\* no flag falls, in either traversal
FlagsKept ==
    /\ \A c \in DOMAIN d10_visited : d10_visited[c] => d10_visited'[c]
    /\ \A c \in DOMAIN d12_visited : d12_visited[c] => d12_visited'[c]

\* a flag rises only for a cell that is in the frontier
MarkedFromFrontier ==
    /\ \A c \in DOMAIN d10_visited :
           (~d10_visited[c] /\ d10_visited'[c]) => c \in Range(d10_to_visit)
    /\ \A c \in DOMAIN d12_visited :
           (~d12_visited[c] /\ d12_visited'[c]) => c \in Range(d12_queue)

\* C15 as stated: a cell goes Unvisited, Frontier, Visited and never back:
\* once visited it is never pushed on the frontier again and its flag
\* never falls.
C15_NoBackTransition ==
    [][/\ FlagsKept
       /\ MarkedFromFrontier
       /\ \A c \in DfsPushed : ~d10_visited[c]
       /\ \A c \in RegionsPushed : ~d12_visited[c]]_vars

\* C15, amended: the flag of a cell rises only while the cell is in the
\* frontier and never falls, so Visited is terminal; collect_regions never
\* pushes a visited cell on the frontier; dfs can push a visited cell again
\* (neighbors does not test the flag), and such a cell is dropped when it
\* is popped, with nothing pushed and no flag changed.
C15_FlagMonotonic ==
    [][/\ FlagsKept
       /\ MarkedFromFrontier
       /\ \A c \in RegionsPushed : ~d12_visited[c]
       /\ (d10_pc = "loop" /\ d10_to_visit # <<>>
               /\ d10_visited[d10_to_visit[Len(d10_to_visit)]]) =>
              (d10_to_visit' = Popped(d10_to_visit) /\ d10_visited' = d10_visited)]_vars

\* collect_regions is about to pop an index that is visited: it was pushed
\* twice before it was marked
C15_Witness ==
    /\ d12_pc = "while"
    /\ d12_queue # <<>>
    /\ d12_visited[d12_queue[Len(d12_queue)]]

---------------------------------------------------------------------------
(* Termination of FieldMap::dfs and Plot::collect_regions, under           *)
(* SpecDfsRegions                                                          *)

\* the cells of plot that are not marked
Unmarked == {c \in DOMAIN d12_visited : ~d12_visited[c]}

\* the most indices the frontier of dfs can hold: the start indices, and
\* four neighbours for each cell visited
DfsFrontierMax == Len(d10_start) + 4 * Cardinality(DOMAIN field.data)

\* what is left of a call of dfs, ordered by the cells not yet visited and
\* then by the length of the frontier; 0 once dfs has returned
DfsMeasure ==
    IF d10_pc = "call" THEN (Cardinality(DOMAIN field.data) + 1) * (DfsFrontierMax + 2)
    ELSE IF d10_pc = "loop"
    THEN Cardinality({c \in DOMAIN d10_visited : ~d10_visited[c]}) * (DfsFrontierMax + 2)
             + Len(d10_to_visit) + 1
    ELSE 0

\* the most indices the queue of collect_regions can hold
RegionsFrontierMax == 4 * Cardinality(DOMAIN plot.data)

\* where the outer loop of collect_regions is in its round: 2 in the inner
\* loop once the first cell of the region is marked, 1 back at the top of
\* the outer loop, 0 in the inner loop of the next region before its first
\* cell is marked
RegionsStage ==
    IF d12_pc = "while" THEN (IF d12_visited[last_unvisited] THEN 2 ELSE 0) ELSE 1

\* what is left of a call of collect_regions, ordered by the cells not yet
\* marked, then by the stage of the round, then by the length of the queue;
\* 0 once collect_regions has returned
RegionsMeasure ==
    IF d12_pc = "call"
    THEN (Cardinality(DOMAIN plot.data) + 1) * 3 * (RegionsFrontierMax + 1)
    ELSE IF d12_pc \in {"loop", "while"}
    THEN Cardinality(Unmarked) * 3 * (RegionsFrontierMax + 1)
             + RegionsStage * (RegionsFrontierMax + 1)
             + Len(d12_queue) + 1
    ELSE 0

\* no call is running any more
Returned == d10_pc \in {"done", "idle"} /\ d12_pc \in {"done", "idle"}

\* dfs leaves its loop exactly when to_visit is empty; collect_regions
\* leaves its inner loop exactly when queue is empty and its outer loop
\* exactly when no cell is unmarked
ExitsOnEmptyFrontier ==
    /\ d10_pc = "loop" => (d10_pc' = "done" <=> d10_to_visit = <<>>)
    /\ d12_pc = "while" => (d12_pc' = "loop" <=> d12_queue = <<>>)
    /\ d12_pc = "loop" => (d12_pc' = "done" <=> Unmarked = {})

\* C16: every call of dfs and of collect_regions returns, for every grid
\* content and start set: until the call has returned a step that changes
\* the state is possible, and every step lowers a measure that is a natural
\* number, so a call takes at most as many steps as its first measure. A
\* loop is left exactly when its frontier is empty (the outer loop of
\* collect_regions: when no cell is unmarked).
C16_Terminates ==
    /\ [](Returned \/ ENABLED <<SpecDfsRegionsNext>>_vars)
    /\ [](DfsMeasure >= 0 /\ RegionsMeasure >= 0)
    /\ [](Len(d10_to_visit) <= DfsFrontierMax /\ Len(d12_queue) <= RegionsFrontierMax)
    /\ [][DfsMeasure' + RegionsMeasure' < DfsMeasure + RegionsMeasure]_vars
    /\ [](d10_pc = "done" => d10_to_visit = <<>>)
    /\ [](d12_pc = "done" => d12_queue = <<>> /\ Unmarked = {})
    /\ [][ExitsOnEmptyFrontier]_vars

\* collect_regions returned after its outer loop ran for several regions
C16_Witness ==
    /\ d12_pc = "done"
    /\ Len(d12_ret) > 1
    /\ d12_queue = <<>>

---------------------------------------------------------------------------
(* Independence of FieldMap::dfs from the order of the frontier, under     *)
(* SpecDfs                                                                 *)

\* the disciplines the next pending index is taken by: the last pushed (as
\* dfs does), the first pushed, the least index pending
FrontierOrders == {"stack", "queue", "least"}

\* the position of frontier the discipline takes next
TakenPosition(frontier, order) ==
    IF order = "stack" THEN Len(frontier)
    ELSE IF order = "queue" THEN 1
    ELSE CHOOSE k \in 1..Len(frontier) :
             \A m \in 1..Len(frontier) :
                 frontier[k] < frontier[m] \/ (frontier[k] = frontier[m] /\ k <= m)

\* the set a traversal marks that differs from the loop of dfs in the
\* position it takes from the frontier only: a marked index is dropped, an
\* unmarked one is marked and its neighbors are pushed
RECURSIVE TraverseFrom(_, _, _, _)
TraverseFrom(self, frontier, seen, order) ==
    IF frontier = <<>> THEN {c \in DOMAIN seen : seen[c]}
    ELSE LET k == TakenPosition(frontier, order)
             i == frontier[k]
             rest == SubSeq(frontier, 1, k - 1) \o SubSeq(frontier, k + 1, Len(frontier))
         IN  IF seen[i] THEN TraverseFrom(self, rest, seen, order)
             ELSE TraverseFrom(self, rest \o neighbors(self, i),
                               [seen EXCEPT ![i] = TRUE], order)

\* the start lists as long as start that hold the same indices, in any
\* order and with any repetition
SameStartSets ==
    {s \in [1..Len(d10_start) -> Range(d10_start)] : Range(s) = Range(d10_start)}

\* no cell of field marked
Unseen == [c \in DOMAIN field.data |-> FALSE]

---------------------------------------------------------------------------
(* Properties of FieldMap::trailhead_score, under SpecScore *)

\* the cells of height 9 that trails from the trailhead reach
NinesReached ==
    {c \in ReachableFrom({d10_start[1]}) : field.data[c] = 9}

\* C18: trailhead_score(t) is the number of distinct cells of height 9 that
\* paths from t reach whose every move goes to an orthogonal neighbour
\* exactly one higher; a cell of height 9 that several paths reach counts
\* once.
C18_ScoreCountsNines ==
    d10_pc = "scored" => d10_score = Some(Cardinality(NinesReached))

\* a score of one for a cell of height 9 that two trails reach, through
\* two different cells of height 8
C18_Witness ==
    /\ d10_pc = "scored"
    /\ d10_score = Some(1)
    /\ \E nine \in NinesReached :
           \E a, b \in ReachableFrom({d10_start[1]}) :
               a # b /\ Climbs(a, nine) /\ Climbs(b, nine)

---------------------------------------------------------------------------
(* Properties of Plot::collect_regions, under SpecRegions *)

\* cells i and j of the plot are orthogonal neighbours in the grid
PlotOrthogonal(i, j) ==
    LET w == plot.tiles.width
        dr == (i \div w) - (j \div w)
        dc == (i % w) - (j % w)
    IN  dr * dr + dc * dc = 1

\* the cells joined to a cell of S by an orthogonal path of cells of one
\* label
RECURSIVE SameLabelFrom(_)
SameLabelFrom(S) ==
    LET T == S \cup {j \in DOMAIN plot.data :
                        \E i \in S : PlotOrthogonal(i, j) /\ plot.data[i] = plot.data[j]}
    IN  IF T = S THEN S ELSE SameLabelFrom(T)

\* the places (region, position) of the result that hold cell c
PlacesOf(c) ==
    {rk \in (1..Len(d12_ret)) \X (1..Cardinality(DOMAIN plot.data)) :
        /\ rk[2] <= Len(d12_ret[rk[1]].indices)
        /\ d12_ret[rk[1]].indices[rk[2]] = c}

\* C19: collect_regions returns the maximal 4-connected regions of one
\* label: every cell is in exactly one region, once; every cell of a region
\* has the region's name; any two cells of a region are joined by an
\* orthogonal path of cells of that label; and two orthogonal neighbours of
\* equal labels are in the same region.
C19_RegionsPartition ==
    d12_pc = "done" =>
        /\ \A c \in DOMAIN plot.data : Cardinality(PlacesOf(c)) = 1
        /\ \A r \in 1..Len(d12_ret) :
               /\ d12_ret[r].indices # <<>>
               /\ \A c \in Range(d12_ret[r].indices) :
                      /\ c \in DOMAIN plot.data
                      /\ plot.data[c] = d12_ret[r].name
                      /\ Range(d12_ret[r].indices) \subseteq SameLabelFrom({c})
        /\ \A i, j \in DOMAIN plot.data :
               (PlotOrthogonal(i, j) /\ plot.data[i] = plot.data[j]) =>
                   \E r \in 1..Len(d12_ret) : {i, j} \subseteq Range(d12_ret[r].indices)

\* collect_regions returned two regions of the same name, one of them of
\* several cells
C19_Witness ==
    /\ d12_pc = "done"
    /\ \E r, q \in 1..Len(d12_ret) :
           /\ r # q
           /\ d12_ret[r].name = d12_ret[q].name
           /\ Len(d12_ret[r].indices) > 1

---------------------------------------------------------------------------
(* Properties of Grid::step_count, under SpecSteps *)

\* cells i and j of the grid are orthogonal neighbours
GridOrthogonal(i, j) ==
    LET w == grid.tile_index.width
        dr == (i \div w) - (j \div w)
        dc == (i % w) - (j % w)
    IN  dr * dr + dc * dc = 1

\* the last index of the grid
LastIndex == Cardinality(DOMAIN grid.data) - 1

\* the cells within k moves of index 0, a move entering an orthogonal
\* neighbour that is not marked
RECURSIVE StepsWithin(_)
StepsWithin(k) ==
    IF k = 0 THEN {0}
    ELSE LET B == StepsWithin(k - 1)
         IN  B \cup {j \in DOMAIN grid.data :
                        ~grid.data[j] /\ \E i \in B : GridOrthogonal(i, j)}

---------------------------------------------------------------------------
(* Properties of search, under SpecSearch *)

\* the states of a player in the maze
PlayerStates == [pos : DOMAIN race.collision_map, dir : Direction]

\* the row and column a step in a direction adds
StepOf(dr) ==
    CASE dr = "Left"  -> <<0, -1>>
      [] dr = "Right" -> <<0, 1>>
      [] dr = "Up"    -> <<-1, 0>>
      [] dr = "Down"  -> <<1, 0>>

\* from state a, state b is one forward move into a cell that is no wall
ForwardMove(a, b) ==
    LET w == race.tiles.width
    IN  /\ b.dir = a.dir
        /\ ~race.collision_map[b.pos]
        /\ (b.pos \div w) = (a.pos \div w) + StepOf(a.dir)[1]
        /\ (b.pos % w) = (a.pos % w) + StepOf(a.dir)[2]

\* from state a, state b is a turn of 90 degrees on the spot
QuarterTurn(a, b) ==
    /\ b.pos = a.pos
    /\ (a.dir \in {"Left", "Right"}) # (b.dir \in {"Left", "Right"})

\* the score of the action that leads from a to b, when there is one
ActionScore(a, b) ==
    IF ForwardMove(a, b) THEN Some(1)
    ELSE IF QuarterTurn(a, b) THEN Some(1000)
    ELSE None

\* least scores extended by one more action: dist maps the states reached
\* so far to the least score found for them
RelaxOnce(dist) ==
    LET reach == DOMAIN dist \cup
                     {b \in PlayerStates :
                         \E a \in DOMAIN dist : ActionScore(a, b) # None}
        via(b) == (IF b \in DOMAIN dist THEN {dist[b]} ELSE {})
                      \cup {dist[a] + ActionScore(a, b)[1] :
                               a \in {x \in DOMAIN dist : ActionScore(x, b) # None}}
    IN  [b \in reach |-> CHOOSE v \in via(b) : \A u \in via(b) : v <= u]

\* dist extended until one more action improves nothing
RECURSIVE Relaxed(_)
Relaxed(dist) ==
    LET next == RelaxOnce(dist)
    IN  IF next = dist THEN dist ELSE Relaxed(next)

\* the least scores of all sequences of actions from the start state, for
\* the states they reach
AllLeastScores == Relaxed([s \in {d16_start} |-> 0])

\* the least of the scores that scores gives the states on the goal, None
\* when it gives none a score
LeastOnGoal(scores) ==
    LET found == {scores[b] : b \in {x \in DOMAIN scores : x.pos = race.goal}}
    IN  IF found = {} THEN None
        ELSE Some(CHOOSE v \in found : \A u \in found : v <= u)

\* C21: search returns Some(s) with s the least total score of the
\* sequences of actions from the start state to a state on the goal, a
\* forward move into a cell that is no wall scoring 1 and a turn of 90
\* degrees 1000, and None exactly when no sequence reaches the goal.
C21_SearchMinimal ==
    d16_pc = "done" => d16_ret = LeastOnGoal(AllLeastScores)

\* search returned the score of a path of two turns and some forward moves
C21_Witness ==
    /\ d16_pc = "done"
    /\ d16_ret # None
    /\ d16_ret[1] > 2000
    /\ d16_ret[1] < 3000

---------------------------------------------------------------------------
(* Properties of Sokoban::forward, under SpecSokoban *)

\* data[player_pos] is the player
PlayerInPlace == sokoban.data[sokoban.player_pos] = "Player"

\* the cell ahead of cell c in a direction, by rows and columns: a set of
\* one cell, empty at the edge of the grid
CellAhead(c, dr) ==
    LET w == sokoban.tiles.width
        row == (c \div w) + StepOf(dr)[1]
        col == (c % w) + StepOf(dr)[2]
    IN  IF row \in 0..(sokoban.tiles.height - 1) /\ col \in 0..(w - 1)
        THEN {row * w + col} ELSE {}

\* the cells that move with cell a when it is pushed up or down: the cell
\* beside the half of a wide boulder
MovesWith(a, dr) ==
    IF dr \in {"Left", "Right"} THEN {}
    ELSE IF sokoban.data[a] = "WideLeft" THEN CellAhead(a, "Right")
    ELSE IF sokoban.data[a] = "WideRight" THEN CellAhead(a, "Left")
    ELSE {}

\* the chain a move of the player pushes: the player's cell, every boulder
\* or player ahead of a cell of the chain and what moves with it
RECURSIVE ChainFrom(_, _)
ChainFrom(S, dr) ==
    LET T == S \cup UNION {{a} \cup MovesWith(a, dr) :
                              a \in {x \in UNION {CellAhead(c, dr) : c \in S} :
                                        sokoban.data[x] \notin {"Empty", "Wall"}}}
    IN  IF T = S THEN S ELSE ChainFrom(T, dr)

\* the chain the player pushes in a direction
Chain(dr) == ChainFrom({sokoban.player_pos}, dr)

\* the chain meets a wall or would leave the grid
ChainBlocked(dr) ==
    \E c \in Chain(dr) :
        \/ CellAhead(c, dr) = {}
        \/ \E a \in CellAhead(c, dr) : sokoban.data[a] = "Wall"

\* C22: forward(dir) leaves data and player_pos unchanged whenever the
\* chain pushed ahead of the player meets a wall or would leave the grid;
\* the chain is then blocked as before, so that repeating the move keeps
\* the state unchanged.
C22_BlockedUnchanged ==
    [][\A dr \in Direction :
           (d15_dir' = Some(dr) /\ ChainBlocked(dr)) =>
               (sokoban' = sokoban /\ ChainBlocked(dr)')]_vars

\* forward returned where the player pushes a boulder that has a wall
\* ahead
C22_Witness ==
    /\ d15_exit = "return"
    /\ \E dr \in Direction :
           /\ d15_dir = Some(dr)
           /\ ChainBlocked(dr)
           /\ \E c \in Chain(dr) :
                  /\ sokoban.data[c] \in {"Single", "WideLeft", "WideRight"}
                  /\ \E a \in CellAhead(c, dr) : sokoban.data[a] = "Wall"

\* every WideLeft has a WideRight immediately to its right in its row, and
\* every WideRight a WideLeft immediately to its left
Intact ==
    \A c \in DOMAIN sokoban.data :
        /\ sokoban.data[c] = "WideLeft" =>
               \E r \in CellAhead(c, "Right") : sokoban.data[r] = "WideRight"
        /\ sokoban.data[c] = "WideRight" =>
               \E l \in CellAhead(c, "Left") : sokoban.data[l] = "WideLeft"

\* C23: wide boulders stay intact: from a board where every WideLeft has a
\* WideRight immediately to its right in its row and every WideRight a
\* WideLeft immediately to its left, every call of forward leads to such a
\* board.
C23_WideIntact == [][Intact => Intact']_vars

\* forward has pushed two wide boulders up or down, the second standing
\* one column aside of the first, and both are intact
C23_Witness ==
    /\ d15_exit = "push"
    /\ d15_dir \in {Some("Up"), Some("Down")}
    /\ Intact
    /\ \E l, m \in DOMAIN sokoban.data :
           /\ sokoban.data[l] = "WideLeft"
           /\ sokoban.data[m] = "WideLeft"
           /\ (l % sokoban.tiles.width) + 1 = m % sokoban.tiles.width
           /\ \E a, b \in d15_to_move :
                  l \in CellAhead(a, d15_dir[1]) /\ m \in CellAhead(b, d15_dir[1])

\* the cells that hold a Player
PlayerCells == {c \in DOMAIN sokoban.data : sokoban.data[c] = "Player"}

\* C27 as stated: after any sequence of calls of forward on a parsed board
\* data[player_pos] is the Player and no other cell holds one.
C27_OnlyPlayer == PlayerInPlace /\ PlayerCells = {sokoban.player_pos}

\* C27, amended: after any sequence of calls of forward on a parsed board
\* data[player_pos] is the Player, and a call of forward leaves the number
\* of Player cells what it was: player_pos is the only Player cell whenever
\* the parsed map holds a single '@'.
C27_PlayerInPlace ==
    /\ []PlayerInPlace
    /\ [][Cardinality(PlayerCells') = Cardinality(PlayerCells)]_vars

\* forward has pushed a second Player ahead of the one at player_pos
C27_Witness ==
    /\ d15_exit = "push"
    /\ PlayerInPlace
    /\ \E c \in d15_to_move : \E a \in CellAhead(c, d15_dir[1]) :
           a # sokoban.player_pos /\ sokoban.data[a] = "Player"

---------------------------------------------------------------------------
(* Properties of the solvers of day13.rs, under SpecSolvers *)

\* the buttons are not parallel
NonParallel == divisor_of(claw) # 0

\* the token counts 3*m + n of the presses m, n >= 0 that reach the prize
Presses ==
    {3 * m + n : <<m, n>> \in
        {mn \in (0..MaxPrize) \X (0..MaxPrize) :
            /\ mn[1] * claw.a[1] + mn[2] * claw.b[1] = claw.prize[1]
            /\ mn[1] * claw.a[2] + mn[2] * claw.b[2] = claw.prize[2]}}

\* the result the doc comment of dijkstra_solver asks for
MinimalTokens ==
    IF Presses = {} THEN None
    ELSE Some(CHOOSE t \in Presses : \A u \in Presses : t <= u)

\* C24: on buttons that are not parallel, dijkstra_solver and
\* linear_algebra_solver return the same result: Some of the minimal
\* 3*m + n over the presses m, n >= 0 that reach the prize, None when no
\* such presses exist
C24_SolversAgree ==
    (NonParallel /\ d13_pc = "done" /\ linear_exit = "return") =>
        /\ d13_ret = linear_ret
        /\ d13_ret = MinimalTokens
        /\ linear_ret = MinimalTokens

\* the part of C24 that dijkstra_solver meets, parallel buttons included
DijkstraMinimal == d13_pc = "done" => d13_ret = MinimalTokens

\* linear_algebra_solver returns Some for a prize that takes a negative
\* number of presses of one button
LinearNegative ==
    /\ d13_pc = "done"
    /\ linear_exit = "return"
    /\ d13_ret = None
    /\ linear_ret # None

---------------------------------------------------------------------------
(* Properties of Grid::mark, under SpecMark *)

\* the index of column x of row y in the row-major layout of TileIndex
RowMajor(self, coord) == coord[2] * self.tile_index.width + coord[1]

\* C25: a call of Grid::mark on a coord (x, y) of a grid built by Grid::new,
\* x < width and y < height, marks the cell at index y * width + x and no
\* other.
C25_MarkRowMajor ==
    [][/\ mark_exit' = "return"
       /\ marking'.data =
              [marking.data EXCEPT ![RowMajor(marking, mark_coord'[1])] = TRUE]]_vars

\* what holds of Grid::mark: on a grid as wide as high it marks the cell at
\* y * width + x and no other
MarkSquareRowMajor ==
    [][marking.tile_index.width = marking.tile_index.height =>
           /\ mark_exit' = "return"
           /\ marking'.data =
                  [marking.data EXCEPT ![RowMajor(marking, mark_coord'[1])] = TRUE]]_vars

\* Grid::mark marked a cell of another row and column than its coord
MarkedElsewhere ==
    /\ mark_exit = "return"
    /\ Cardinality({i \in DOMAIN marking.data : marking.data[i]}) = 1
    /\ ~marking.data[RowMajor(marking, mark_coord[1])]

---------------------------------------------------------------------------
(* Properties of Stepper::is_infinite_looping, under SpecLooping *)

\* the guard's walk, told without the Stepper: the cell ahead of a guard
CellAheadOf(guard) ==
    CASE guard.dir = "Up" -> <<guard.pos[1], guard.pos[2] - 1>>
      [] guard.dir = "Down" -> <<guard.pos[1], guard.pos[2] + 1>>
      [] guard.dir = "Left" -> <<guard.pos[1] - 1, guard.pos[2]>>
      [] guard.dir = "Right" -> <<guard.pos[1] + 1, guard.pos[2]>>

\* the cells of the world and the blocks among them
InWorld(p) == p[1] \in Cells(world.width) /\ p[2] \in Cells(world.height)
IsBlock(p) == world.field_map.data[p[2] * world.width + p[1]]

\* a quarter turn clockwise
TurnedRight(dr) ==
    CASE dr = "Up" -> "Right"
      [] dr = "Right" -> "Down"
      [] dr = "Down" -> "Left"
      [] dr = "Left" -> "Up"

\* the guard steps out of the world within k steps or turns
RECURSIVE LeavesWithin(_, _)
LeavesWithin(guard, k) ==
    IF k = 0 THEN FALSE
    ELSE LET ahead == CellAheadOf(guard)
         IN  IF ~InWorld(ahead) THEN TRUE
             ELSE IF IsBlock(ahead)
                  THEN LeavesWithin([guard EXCEPT !.dir = TurnedRight(guard.dir)],
                                    k - 1)
                  ELSE LeavesWithin([guard EXCEPT !.pos = ahead], k - 1)

\* a walk that has not left the world after as many steps as there are
\* pairs of a cell and a direction, and one more, never leaves it
WalkLeaves == LeavesWithin(world.player, 4 * world.width * world.height + 1)

\* the Stepper came to its player by a turn: the next pass of the loop
\* looks the player up in player_states
AfterTurn == ~stepper.exhausted /\ last_pos = Some(stepper.player.pos)

\* the next pass of the loop returns
AboutToReturn ==
    stepper.exhausted \/ (AfterTurn /\ stepper.player \in player_states)

\* the cells between the player of the Stepper and the border it faces
RoomAhead ==
    CASE stepper.player.dir = "Up" -> stepper.player.pos[2]
      [] stepper.player.dir = "Down" ->
             world.height - 1 - stepper.player.pos[2]
      [] stepper.player.dir = "Left" -> stepper.player.pos[1]
      [] stepper.player.dir = "Right" ->
             world.width - 1 - stepper.player.pos[1]

\* a bound on the passes of the loop still to come: every turn adds a
\* player to player_states, of which there are no more than four a cell,
\* and between two turns the player walks towards the border
LoopMeasure ==
    IF AboutToReturn THEN 0
    ELSE LET counted == player_states
                            \cup (IF AfterTurn THEN {stepper.player} ELSE {})
         IN  (4 * world.width * world.height + 1 - Cardinality(counted))
                 * (world.width + world.height + 1)
             + RoomAhead

\* C28: is_infinite_looping terminates on every world (each pass of its
\* loop that does not return lowers a measure that is never negative, and
\* a pass is always possible until it returns), and it returns true
\* exactly when the guard's walk never leaves the grid, false exactly when
\* the walk steps out
C28_LoopingDecides ==
    /\ [](d06_pc = "done" => (d06_ret <=> ~WalkLeaves))
    /\ [](d06_pc = "loop" =>
             LoopMeasure >= 0 /\ ENABLED <<SpecLoopingNext>>_vars)
    /\ [][d06_pc' = "loop" => LoopMeasure' < LoopMeasure]_vars

\* is_infinite_looping returned true on a walk that moves between two
\* cells, and false is returned on other worlds
C28_Witness ==
    /\ d06_pc = "done"
    /\ d06_ret
    /\ \E s, t \in player_states : s.pos # t.pos

\* is_infinite_looping returned false after the guard turned at a block
C28_WitnessOut ==
    /\ d06_pc = "done"
    /\ ~d06_ret
    /\ player_states # {}

===========================================================================
